---- MODULE Spec2Model ----
(***************************************************************************)
(* SeedForge (src/src/seedforge.js): the seed hashes, the six bit          *)
(* generators and the PRNG facade with its state protocol, as a state      *)
(* machine over a JavaScript heap.                                         *)
(*                                                                         *)
(* JavaScript values:                                                      *)
(*   an integer-valued Number n, |n| < 2^53, is <<k, hi, lo>> with         *)
(*     n = k * 2^32 + hi * 2^16 + lo, hi and lo in 0..65535, k in Int      *)
(*     (a uint32 has k = 0, a negative int32 has k = -1);                  *)
(*   a String is <<"str", codes>>, codes the tuple of its char codes;      *)
(*   undefined, null and NaN are <<"undefined">>, <<"null">>, <<"NaN">>;   *)
(*   the Number n / 2^32 made by next() is <<"frac", k, hi, lo>>.          *)
(* Objects the code mutates in place (PRNG, generators, arrays) are cells  *)
(* of the heap and are held by address.                                    *)
(***************************************************************************)
EXTENDS Integers, Sequences, FiniteSets, TLC

\* ------------------------------------------------------------------------
\* 32-bit arithmetic of JavaScript on 16-bit halves
\* ------------------------------------------------------------------------

B16 == 256 * 256

Pow2 == [n \in 0..16 |-> CASE n = 0 -> 1 [] n = 1 -> 2 [] n = 2 -> 4 [] n = 3 -> 8
                           [] n = 4 -> 16 [] n = 5 -> 32 [] n = 6 -> 64 [] n = 7 -> 128
                           [] n = 8 -> 256 [] n = 9 -> 512 [] n = 10 -> 1024
                           [] n = 11 -> 2048 [] n = 12 -> 4096 [] n = 13 -> 8192
                           [] n = 14 -> 16384 [] n = 15 -> 32768 [] OTHER -> 65536]

RECURSIVE AndBits(_, _, _)
AndBits(a, b, n) ==
    IF n = 0 THEN 0
    ELSE (IF a % 2 = 1 /\ b % 2 = 1 THEN 1 ELSE 0) + 2 * AndBits(a \div 2, b \div 2, n - 1)

\* a & b on bytes, tabulated once
AndTab == [a \in 0..255 |-> [b \in 0..255 |-> AndBits(a, b, 8)]]

And16(a, b) == AndTab[a \div 256][b \div 256] * 256 + AndTab[a % 256][b % 256]
Xor16(a, b) == a + b - 2 * And16(a, b)
Or16(a, b)  == a + b - And16(a, b)

\* e, once v has been computed: a loop computes its accumulator before the
\* next iteration starts
Force(v, e) == IF v = v THEN e ELSE e

\* the element of a one-element set: The({ e(x) : x \in {v} }) is e(v) with v
\* computed once
The(S) == CHOOSE r \in S : TRUE

\* Numbers --------------------------------------------------------------
Num(k, hi, lo) == <<k, hi, lo>>
U32(hi, lo)    == <<0, hi, lo>>
Zero           == <<0, 0, 0>>
Small(n)       == <<0, 0, n>>          \* 0 <= n < 65536
Undefined      == <<"undefined">>
Null           == <<"null">>
NaN            == <<"NaN">>
Str(codes)     == <<"str", codes>>

IsNum(x) == Len(x) = 3
IsStr(x) == Len(x) = 2
IsNaN(x) == Len(x) = 1 /\ x[1] = "NaN"
IsUndefined(x) == Len(x) = 1 /\ x[1] = "undefined"

\* ToUint32 / ToInt32 (ECMAScript): NaN and undefined convert to 0
ToUint32(x) == IF IsNum(x) THEN <<0, x[2], x[3]>> ELSE Zero
ToInt32(x)  == IF IsNum(x) THEN <<(IF x[2] >= 32768 THEN -1 ELSE 0), x[2], x[3]>> ELSE Zero

\* x + y on Numbers (exact below 2^53); NaN when an operand is not a Number
Add(x, y) ==
    IF ~(IsNum(x) /\ IsNum(y)) THEN NaN
    ELSE LET lo == x[3] + y[3]
             hi == x[2] + y[2] + lo \div B16
         IN  <<x[1] + y[1] + hi \div B16, hi % B16, lo % B16>>

Neg(x) ==
    IF ~IsNum(x) THEN NaN
    ELSE IF x[2] = 0 /\ x[3] = 0 THEN <<-x[1], 0, 0>>
    ELSE IF x[3] = 0 THEN <<-x[1] - 1, B16 - x[2], 0>>
    ELSE <<-x[1] - 1, B16 - 1 - x[2], B16 - x[3]>>

Sub(x, y) == Add(x, Neg(y))

\* x < y on Numbers
Less(x, y) ==
    /\ IsNum(x) /\ IsNum(y)
    /\ \/ x[1] < y[1]
       \/ x[1] = y[1] /\ x[2] < y[2]
       \/ x[1] = y[1] /\ x[2] = y[2] /\ x[3] < y[3]

\* the bitwise operators: operands through ToInt32, result an int32
Xor(x, y) == LET a == ToInt32(x)
                 b == ToInt32(y)
             IN  ToInt32(<<0, Xor16(a[2], b[2]), Xor16(a[3], b[3])>>)
Or(x, y)  == LET a == ToInt32(x)
                 b == ToInt32(y)
             IN  ToInt32(<<0, Or16(a[2], b[2]), Or16(a[3], b[3])>>)
And(x, y) == LET a == ToInt32(x)
                 b == ToInt32(y)
             IN  ToInt32(<<0, And16(a[2], b[2]), And16(a[3], b[3])>>)

\* x << n (n taken mod 32), an int32
Shl(x, n) ==
    LET a == ToInt32(x)
        m == n % 32
    IN  IF m < 16
        THEN LET l == a[3] * Pow2[m]
             IN  ToInt32(<<0, ((a[2] * Pow2[m]) + l \div B16) % B16, l % B16>>)
        ELSE ToInt32(<<0, (a[3] * Pow2[m - 16]) % B16, 0>>)

\* x >>> n (n taken mod 32), a uint32
Shr(x, n) ==
    LET a == ToUint32(x)
        m == n % 32
    IN  IF m < 16
        THEN <<0, a[2] \div Pow2[m], a[3] \div Pow2[m] + (a[2] % Pow2[m]) * Pow2[16 - m]>>
        ELSE <<0, 0, a[2] \div Pow2[m - 16]>>

\* the full product of two 16-bit halves, as <<high half, low half>>
Mul16(a, b) ==
    LET p1 == a * (b \div 256)
        p0 == a * (b % 256)
        l  == (p1 % 256) * 256 + p0
    IN  <<p1 \div 256 + l \div B16, l % B16>>

\* Math.imul(x, y): the low 32 bits of the product, an int32
Imul(x, y) ==
    LET a == ToInt32(x)
        b == ToInt32(y)
        ll == Mul16(a[3], b[3])
        c1 == Mul16(a[2], b[3])
        c2 == Mul16(a[3], b[2])
    IN  ToInt32(<<0, (ll[1] + c1[2] + c2[2]) % B16, ll[2]>>)

\* a uint32 written as two 16-bit halves, 0xHHHHLLLL = Hex32(0xHHHH, 0xLLLL)
Hex32(hi, lo) == <<0, hi, lo>>
One == <<0, 0, 1>>

\* String(n) for an integer Number: its decimal digits, "-" first when negative
DivMod10(x) ==
    LET t1 == (x[1] % 10) * B16 + x[2]
        t2 == (t1 % 10) * B16 + x[3]
    IN  [q |-> <<x[1] \div 10, t1 \div 10, t2 \div 10>>, r |-> t2 % 10]

RECURSIVE Digits(_)
Digits(x) ==
    IF x[1] = 0 /\ x[2] = 0 /\ x[3] < 10 THEN <<48 + x[3]>>
    ELSE LET d == DivMod10(x) IN Append(Digits(d.q), 48 + d.r)

JsString(x) ==
    IF IsStr(x) THEN x
    ELSE IF IsNum(x) THEN (IF x[1] < 0 THEN Str(<<45>> \o Digits(Neg(x))) ELSE Str(Digits(x)))
    ELSE IF IsNaN(x) THEN Str(<<78, 97, 78>>)
    ELSE IF IsUndefined(x) THEN Str(<<117, 110, 100, 101, 102, 105, 110, 101, 100>>)
    ELSE Str(<<110, 117, 108, 108>>)

\* a + b on Strings
Concat(a, b) == Str(a[2] \o b[2])

\* ------------------------------------------------------------------------
\* Seeding utilities
\* ------------------------------------------------------------------------

\* stringToSeed(str): hash = ((hash << 5) - hash) + char; hash = hash & hash,
\* for the characters lo..hi in turn (the range is halved, the left half
\* first, so that a long string is no deep recursion)
stringToSeedStep(c, hash) ==
    The({ And(h1, h1) : h1 \in {Add(Sub(Shl(hash, 5), hash), Small(c))} })

RECURSIVE stringToSeedLoop(_, _, _, _)
stringToSeedLoop(codes, lo, hi, hash) ==
    IF lo > hi THEN hash
    ELSE IF lo = hi THEN stringToSeedStep(codes[lo], hash)
    ELSE The({ stringToSeedLoop(codes, (lo + hi) \div 2 + 1, hi, m) :
               m \in {stringToSeedLoop(codes, lo, (lo + hi) \div 2, hash)} })

stringToSeed(str) ==
    IF Len(str[2]) = 0 THEN Zero
    ELSE Shr(stringToSeedLoop(str[2], 1, Len(str[2]), Zero), 0)

\* cyrb128(str): four accumulators mixed per character, then finalised.
\* 597399067 = Hex32(9115, 38427), 2869860233 = Hex32(43790, 38793),
\* 951274213 = Hex32(14515, 19173), 2716044179 = Hex32(41443, 35731);
\* 1779033703, 3144134277, 1013904242, 2773480762 start the accumulators.
cyrb128Step(k, h) ==
    The({ <<h1, Xor(h[3], Imul(Xor(h[2], k), Hex32(43790, 38793))),
            Xor(h[4], Imul(Xor(h[3], k), Hex32(14515, 19173))),
            Xor(h1, Imul(Xor(h[4], k), Hex32(41443, 35731)))>> :
          h1 \in {Xor(h[2], Imul(Xor(h[1], k), Hex32(9115, 38427)))} })

RECURSIVE cyrb128Loop(_, _, _, _)
cyrb128Loop(codes, lo, hi, h) ==
    IF lo > hi THEN h
    ELSE IF lo = hi THEN cyrb128Step(Small(codes[lo]), h)
    ELSE The({ cyrb128Loop(codes, (lo + hi) \div 2 + 1, hi, m) :
               m \in {cyrb128Loop(codes, lo, (lo + hi) \div 2, h)} })

cyrb128(str) ==
    The({ The({ The({ The({ <<Shr(g1, 0), Shr(Xor(h2, g1), 0),
                              Shr(Xor(h3, g1), 0), Shr(Xor(h4, g1), 0)>> :
                            \* h1 ^= (h2 ^ h3 ^ h4)
                            g1 \in {Xor(h1, Xor(Xor(h2, h3), h4))} }) :
                      h3 \in {Imul(Xor(h1, Shr(h[3], 17)), Hex32(14515, 19173))},
                      h4 \in {Imul(Xor(h2, Shr(h[4], 19)), Hex32(41443, 35731))} }) :
                h1 \in {Imul(Xor(h[3], Shr(h[1], 18)), Hex32(9115, 38427))},
                h2 \in {Imul(Xor(h[4], Shr(h[2], 22)), Hex32(43790, 38793))} }) :
          h \in {cyrb128Loop(str[2], 1, Len(str[2]), <<Hex32(27145, 58983), Hex32(47975, 44677),
                                          Hex32(15470, 62322), Hex32(42319, 62778)>>)} })

\* ------------------------------------------------------------------------
\* Double arithmetic on non-negative integers beyond 2^32: a value is a tuple
\* of base-2^16 limbs, least significant first, and every operation rounds
\* its exact result to 53 significant bits, to nearest, ties to even.
\* ------------------------------------------------------------------------

RECURSIVE BigTrim(_)
BigTrim(b) ==
    IF Len(b) > 1 /\ b[Len(b)] = 0 THEN BigTrim(SubSeq(b, 1, Len(b) - 1)) ELSE b

RECURSIVE BigAddC(_, _, _, _)
BigAddC(x, y, i, carry) ==
    IF i > Len(x) /\ i > Len(y)
    THEN (IF carry = 0 THEN <<>> ELSE <<carry>>)
    ELSE LET t == (IF i <= Len(x) THEN x[i] ELSE 0) + (IF i <= Len(y) THEN y[i] ELSE 0) + carry
         IN  <<t % B16>> \o BigAddC(x, y, i + 1, t \div B16)

BigAdd(x, y) == The({ BigTrim(s) : s \in {BigAddC(x, y, 1, 0)} })

RECURSIVE BigMulLimb(_, _, _, _)
BigMulLimb(x, d, i, carry) ==
    IF i > Len(x) THEN (IF carry = 0 THEN <<>> ELSE <<carry>>)
    ELSE LET p == Mul16(x[i], d)
             t == p[2] + carry
         IN  <<t % B16>> \o BigMulLimb(x, d, i + 1, p[1] + t \div B16)

RECURSIVE BigMulFrom(_, _, _)
BigMulFrom(x, y, j) ==
    IF j > Len(y) THEN <<0>>
    ELSE The({ BigAdd(a, b) : a \in {[n \in 1..(j - 1) |-> 0] \o BigMulLimb(x, y[j], 1, 0)},
                              b \in {BigMulFrom(x, y, j + 1)} })

BigMul(x, y) == The({ BigTrim(p) : p \in {BigMulFrom(x, y, 1)} })

RECURSIVE BitLen16(_)
BitLen16(n) == IF n = 0 THEN 0 ELSE 1 + BitLen16(n \div 2)

BigBitLen(b) == LET t == BigTrim(b) IN 16 * (Len(t) - 1) + BitLen16(t[Len(t)])

\* round to 53 significant bits (values below 2^69: the dropped bits are in limb 1)
Round53(b) ==
    LET e == BigBitLen(b) - 53
    IN  IF e <= 0 THEN BigTrim(b)
        ELSE LET q    == Pow2[e]
                 r    == b[1] % q
                 kept == IF e = 16 THEN b[2] % 2 ELSE (b[1] \div q) % 2
                 down == [b EXCEPT ![1] = b[1] - r]
                 up   == 2 * r > q \/ (2 * r = q /\ kept = 1)
             IN  IF up THEN BigAdd(down, <<q % B16, q \div B16>>) ELSE BigTrim(down)

NumToBig(x) == BigTrim(<<x[3], x[2], x[1] % B16, x[1] \div B16>>)
BigLimb(b, i) == IF i <= Len(b) THEN b[i] ELSE 0
BigToNum(b) == <<BigLimb(b, 3) + BigLimb(b, 4) * B16, BigLimb(b, 2), BigLimb(b, 1)>>
BigToUint32(b) == <<0, BigLimb(b, 2), BigLimb(b, 1)>>

\* x * y on Numbers, as a limb tuple (magnitudes; the callers' operands are >= 0)
DblMul(x, y) == The({ Round53(p) : p \in {BigMul(NumToBig(x), NumToBig(y))} })
DblAdd(a, b) == The({ Round53(s) : s \in {BigAdd(a, b)} })

\* x * y on non-negative Numbers with a product below 2^63
Mul(x, y) ==
    IF ~(IsNum(x) /\ IsNum(y)) THEN NaN ELSE BigToNum(DblMul(x, y))

\* ------------------------------------------------------------------------
\* The heap. A cell is a record; an address is its index. A call returns the
\* heap it leaves, its return value and whether it threw.
\* ------------------------------------------------------------------------

R(h, ret)     == [h |-> h, ret |-> ret, thrown |-> FALSE]
Throw(h)      == [h |-> h, ret |-> Undefined, thrown |-> TRUE]
Alloc(h, obj) == R(Append(h, obj), Len(h) + 1)

\* o.f of an object held as a record: undefined when o has no property f
Field(o, f) == IF f \in DOMAIN o THEN o[f] ELSE Undefined

\* arrays: JavaScript index i is element i + 1 of the cell's arr
ArrGet(h, a, i) == IF i < Len(h[a].arr) THEN h[a].arr[i + 1] ELSE Undefined
\* a Uint32Array stores ToUint32 of the value; a store past the end is dropped
U32Put(h, a, i, v) ==
    IF i < Len(h[a].arr) THEN [h EXCEPT ![a].arr[i + 1] = ToUint32(v)] ELSE h
\* new Uint32Array(elems)
NewUint32Array(h, elems) == Alloc(h, [arr |-> [i \in 1..Len(elems) |-> ToUint32(elems[i])]])
\* Array.from(this.s)
ArrayFrom(h, a) == Alloc(h, [arr |-> h[a].arr])
\* new Uint32Array(savedState.s): empty when savedState has no s
NewUint32ArrayOf(h, savedState) ==
    IF "s" \in DOMAIN savedState THEN NewUint32Array(h, h[savedState.s].arr)
    ELSE NewUint32Array(h, <<>>)

\* the generators' names
Name_mulberry32 == Str(<<109, 117, 108, 98, 101, 114, 114, 121, 51, 50>>)    \* 'mulberry32'
Name_xoshiro128ss == Str(<<120, 111, 115, 104, 105, 114, 111, 49, 50, 56, 42, 42>>)    \* 'xoshiro128**'
Name_xorshift128plus == Str(<<120, 111, 114, 115, 104, 105, 102, 116, 49, 50, 56, 43>>)    \* 'xorshift128+'
Name_pcg32 == Str(<<112, 99, 103, 51, 50>>)    \* 'pcg32'
Name_sfc32 == Str(<<115, 102, 99, 51, 50>>)    \* 'sfc32'
Name_lcg == Str(<<108, 99, 103>>)    \* 'lcg'

\* typeof seed === 'string' ? stringToSeed(seed) : seed >>> 0
NumSeed(seed) == IF IsStr(seed) THEN stringToSeed(seed) ELSE Shr(seed, 0)
\* cyrb128(typeof seed === 'string' ? seed : String(seed))
StrSeeds(seed) == cyrb128(IF IsStr(seed) THEN seed ELSE JsString(seed))

\* ------------------------------------------------------------------------
\* Mulberry32
\* ------------------------------------------------------------------------

\* a constructor that mixes the address of the new generator into its state,
\* as one seeded from a shared counter would
Mulberry32_newByAddress(h, seed) ==
    Alloc(h, [name |-> Name_mulberry32, seed |-> NumSeed(seed),
              state |-> Shr(Add(NumSeed(seed), Small(Len(h))), 0)])

Mulberry32_new(h, seed) ==
    The({ Alloc(h, [name |-> Name_mulberry32, seed |-> s, state |-> s]) :
          s \in {NumSeed(seed)} })

\* the mixing shared by next() and nextInt(), on t = (this.state += 0x6D2B79F5):
\* t = imul(t ^ t >>> 15, t | 1); t ^= t + imul(t ^ t >>> 7, t | 61); t ^ t >>> 14
Mulberry32_mix(t0) ==
    The({ Xor(t2, Shr(t2, 14)) :
          t2 \in { Xor(t1, Add(t1, Imul(Xor(t1, Shr(t1, 7)), Or(t1, Small(61))))) :
                   t1 \in {Imul(Xor(t0, Shr(t0, 15)), Or(t0, One))} } })

\* a nextInt() that returns t ^ t >>> 14 as the signed integer it is
Mulberry32_nextIntSigned(h, g) ==
    The({ R([h EXCEPT ![g].state = st], Mulberry32_mix(st)) :
          st \in {Add(h[g].state, Hex32(27947, 31221))} })

Mulberry32_nextInt(h, g) ==
    The({ R([h EXCEPT ![g].state = st], Shr(Mulberry32_mix(st), 0)) :
          st \in {Add(h[g].state, Hex32(27947, 31221))} })

\* ((t ^ t >>> 14) >>> 0) / 4294967296
Mulberry32_next(h, g) ==
    The({ R([h EXCEPT ![g].state = st], <<"frac">> \o Shr(Mulberry32_mix(st), 0)) :
          st \in {Add(h[g].state, Hex32(27947, 31221))} })

Mulberry32_getState(h, g) == R(h, [state |-> h[g].state, seed |-> h[g].seed])

Mulberry32_setState(h, g, savedState) ==
    R([h EXCEPT ![g].state = Field(savedState, "state"),
                ![g].seed = Field(savedState, "seed")], Undefined)

Mulberry32_reset(h, g) == R([h EXCEPT ![g].state = h[g].seed], Undefined)

Mulberry32_clone(h, g) ==
    The({ R([c.h EXCEPT ![c.ret].state = h[g].state], c.ret) :
          c \in {Mulberry32_new(h, h[g].seed)} })

\* ------------------------------------------------------------------------
\* Xoshiro128**
\* ------------------------------------------------------------------------

Xoshiro128SS_new(h, seed) ==
    The({ Alloc(a.h, [name |-> Name_xoshiro128ss, originalSeed |-> seed, s |-> a.ret]) :
          a \in {NewUint32Array(h, StrSeeds(seed))} })

rotl(x, k) == Or(Shl(x, k), Shr(x, 32 - k))

\* this.s[i] ^= v
XorInto(h, s, i, v) == U32Put(h, s, i, Xor(ArrGet(h, s, i), v))
\* this.s[i] ^= this.s[j]
XorElem(h, s, i, j) == XorInto(h, s, i, ArrGet(h, s, j))
\* this.s[3] = this._rotl(this.s[3], 11)
RotlElem(h, s, i, k) == U32Put(h, s, i, rotl(ArrGet(h, s, i), k))

Xoshiro128SS_nextInt(h, g) ==
    R(RotlElem(XorInto(XorElem(XorElem(XorElem(XorElem(h, h[g].s, 2, 0),
                                                 h[g].s, 3, 1),
                                         h[g].s, 1, 2),
                                 h[g].s, 0, 3),
                       h[g].s, 2, Shl(ArrGet(h, h[g].s, 1), 9)),
               h[g].s, 3, 11),
      Shr(Imul(rotl(Imul(ArrGet(h, h[g].s, 1), Small(5)), 7), Small(9)), 0))

Xoshiro128SS_next(h, g) ==
    The({ R(r.h, <<"frac">> \o r.ret) : r \in {Xoshiro128SS_nextInt(h, g)} })

\* a getState() that hands out the live array: s: this.s
Xoshiro128SS_getStateLive(h, g) ==
    R(h, [s |-> h[g].s, originalSeed |-> h[g].originalSeed])

Xoshiro128SS_getState(h, g) ==
    The({ R(a.h, [s |-> a.ret, originalSeed |-> h[g].originalSeed]) :
          a \in {ArrayFrom(h, h[g].s)} })

\* a setState(savedState) that restores the state words alone
Xoshiro128SS_setStateWords(h, g, savedState) ==
    The({ R([a.h EXCEPT ![g].s = a.ret], Undefined) :
          a \in {NewUint32ArrayOf(h, savedState)} })

Xoshiro128SS_setState(h, g, savedState) ==
    The({ R([a.h EXCEPT ![g].s = a.ret,
                        ![g].originalSeed = Field(savedState, "originalSeed")], Undefined) :
          a \in {NewUint32ArrayOf(h, savedState)} })

Xoshiro128SS_reset(h, g) ==
    The({ R([a.h EXCEPT ![g].s = a.ret], Undefined) :
          a \in {NewUint32Array(h, StrSeeds(h[g].originalSeed))} })

\* a clone() whose state array is the source's own array
Xoshiro128SS_cloneShared(h, g) ==
    The({ R([c.h EXCEPT ![c.ret].s = h[g].s], c.ret) :
          c \in {Xoshiro128SS_new(h, h[g].originalSeed)} })

Xoshiro128SS_clone(h, g) ==
    The({ The({ R([a.h EXCEPT ![c.ret].s = a.ret], c.ret) :
                a \in {NewUint32Array(c.h, c.h[h[g].s].arr)} }) :
          c \in {Xoshiro128SS_new(h, h[g].originalSeed)} })

\* ------------------------------------------------------------------------
\* Xorshift128 (32-bit)
\* ------------------------------------------------------------------------

Xorshift128Plus_new(h, seed) ==
    The({ Alloc(a.h, [name |-> Name_xorshift128plus, originalSeed |-> seed, s |-> a.ret]) :
          a \in {NewUint32Array(h, StrSeeds(seed))} })

\* this.s[i] = this.s[j]
CopyElem(h, s, i, j) == U32Put(h, s, i, ArrGet(h, s, j))

\* the step shared by next() and nextInt(): the heap it leaves. With t and s
\* read first: s[3] = s[2]; s[2] = s[1]; s[1] = s; t ^= t << 11; t ^= t >>> 8;
\* s[0] = t ^ s ^ (s >>> 19)
Xorshift128Plus_step(h, g) ==
    The({ U32Put(U32Put(CopyElem(CopyElem(h, h[g].s, 3, 2), h[g].s, 2, 1), h[g].s, 1, s),
                  h[g].s, 0, Xor(Xor(t2, s), Shr(s, 19))) :
          s  \in {ArrGet(h, h[g].s, 0)},
          t2 \in { Xor(t1, Shr(t1, 8)) :
                   t1 \in { Xor(t0, Shl(t0, 11)) : t0 \in {ArrGet(h, h[g].s, 3)} } } })

\* return this.s[0] >>> 0
Xorshift128Plus_nextInt(h, g) ==
    The({ R(h1, Shr(ArrGet(h1, h1[g].s, 0), 0)) : h1 \in {Xorshift128Plus_step(h, g)} })

\* a next() whose copy of the step has lost t ^= t >>> 8
Xorshift128Plus_nextUnshifted(h, g) ==
    The({ R(h1, IF IsNum(ArrGet(h1, h1[g].s, 0))
                THEN <<"frac">> \o ArrGet(h1, h1[g].s, 0) ELSE NaN) :
          h1 \in { U32Put(U32Put(CopyElem(CopyElem(h, h[g].s, 3, 2), h[g].s, 2, 1), h[g].s, 1, s),
                          h[g].s, 0, Xor(Xor(t1, s), Shr(s, 19))) :
                   s  \in {ArrGet(h, h[g].s, 0)},
                   t1 \in { Xor(t0, Shl(t0, 11)) : t0 \in {ArrGet(h, h[g].s, 3)} } } })

\* return this.s[0] / 4294967296
Xorshift128Plus_next(h, g) ==
    The({ R(h1, IF IsNum(ArrGet(h1, h1[g].s, 0))
                THEN <<"frac">> \o ArrGet(h1, h1[g].s, 0) ELSE NaN) :
          h1 \in {Xorshift128Plus_step(h, g)} })

Xorshift128Plus_getState(h, g) ==
    The({ R(a.h, [s |-> a.ret, originalSeed |-> h[g].originalSeed]) :
          a \in {ArrayFrom(h, h[g].s)} })

Xorshift128Plus_setState(h, g, savedState) ==
    The({ R([a.h EXCEPT ![g].s = a.ret,
                        ![g].originalSeed = Field(savedState, "originalSeed")], Undefined) :
          a \in {NewUint32ArrayOf(h, savedState)} })

Xorshift128Plus_reset(h, g) ==
    The({ R([a.h EXCEPT ![g].s = a.ret], Undefined) :
          a \in {NewUint32Array(h, StrSeeds(h[g].originalSeed))} })

Xorshift128Plus_clone(h, g) ==
    The({ The({ R([a.h EXCEPT ![c.ret].s = a.ret], c.ret) :
                a \in {NewUint32Array(c.h, c.h[h[g].s].arr)} }) :
          c \in {Xorshift128Plus_new(h, h[g].originalSeed)} })

\* ------------------------------------------------------------------------
\* PCG32: the 64-bit state as two 32-bit halves
\* ------------------------------------------------------------------------

\* _add64(lo, hi)
PCG32_add64(h, g, lo, hi) ==
    The({ [h EXCEPT ![g].stateLo = newLo,
                    ![g].stateHi = Shr(Add(Add(h[g].stateHi, hi),
                                           IF Less(newLo, h[g].stateLo) THEN One ELSE Zero), 0)] :
          newLo \in {Shr(Add(h[g].stateLo, lo), 0)} })

\* x * y for x and y below 2^16: the product is exact
Prod16(x, y) == The({ <<0, p[1], p[2]>> : p \in {Mul16(x[3], y[3])} })

\* _multiply(): multHi = 0x5851F42D, multLo = 0x4C957F2D; a, b, c, d are
\* 16-bit halves
PCG32_multiply(h, g) ==
    LET multHi == Hex32(22609, 62509)
        multLo == Hex32(19605, 32557)
        a      == Shr(h[g].stateLo, 16)
        b      == And(h[g].stateLo, Small(65535))
        c      == Shr(multLo, 16)
        d      == And(multLo, Small(65535))
    IN  The({ The({ [h EXCEPT
                       ![g].stateLo = Shr(Or(And(low, Small(65535)),
                                             Shl(And(mid1, Small(65535)), 16)), 0),
                       ![g].stateHi = Shr(Add(Add(high, Shr(mid1, 16)), crossHi), 0)] :
                    \* if (mid1 < mid2) high += 0x10000
                    high \in {IF Less(mid1, mid2) THEN Add(Prod16(a, c), <<0, 1, 0>>)
                              ELSE Prod16(a, c)},
                    \* (this.stateLo * multHi + this.stateHi * multLo) >>> 0, in doubles
                    crossHi \in {IF IsNum(h[g].stateLo) /\ IsNum(h[g].stateHi)
                                 THEN The({ BigToUint32(DblAdd(p, q)) :
                                            p \in {DblMul(h[g].stateLo, multHi)},
                                            q \in {DblMul(h[g].stateHi, multLo)} })
                                 ELSE Zero} }) :
              \* mid1 = a * d; mid1 += low >>> 16; mid1 += mid2
              low \in {Prod16(b, d)}, mid2 \in {Prod16(b, c)},
              mid1 \in {Add(Add(Prod16(a, d), Shr(Prod16(b, d), 16)), Prod16(b, c))} })

\* this._add64(this.incLo, this.incHi)
PCG32_addInc(h, g) == PCG32_add64(h, g, h[g].incLo, h[g].incHi)

PCG32_nextInt(h, g) ==
    LET oldHi      == h[g].stateHi
        oldLo      == h[g].stateLo
        xorshifted == Xor(Shr(Xor(Shr(oldHi, 18), oldHi), 27), Shr(oldLo, 27))
        rot        == Shr(oldHi, 27)[3]
    IN  The({ R(PCG32_addInc(m, g),
                Shr(Or(Shr(xorshifted, rot), Shl(xorshifted, (32 - rot) % 32)), 0)) :
              m \in {PCG32_multiply(h, g)} })

PCG32_next(h, g) ==
    The({ R(r.h, <<"frac">> \o r.ret) : r \in {PCG32_nextInt(h, g)} })

\* the constructor's and reset()'s seeding: two steps around adding the seed
PCG32_seed(h, g, seed, sequence) ==
    The({ PCG32_nextInt(h2, g).h :
          h2 \in { PCG32_add64(h1, g, NumSeed(seed), Zero) :
                   h1 \in { PCG32_nextInt(h0, g).h :
                            h0 \in {[h EXCEPT ![g].stateHi = Zero, ![g].stateLo = Zero,
                                              ![g].incHi = Zero,
                                              ![g].incLo = Or(Shl(sequence, 1), One)]} } } })

PCG32_new(h, seed, sequence) ==
    R(PCG32_seed(Append(h, [name |-> Name_pcg32, originalSeed |-> seed,
                            originalSequence |-> sequence,
                            stateHi |-> Zero, stateLo |-> Zero,
                            incHi |-> Zero, incLo |-> Zero]),
                 Len(h) + 1, seed, sequence),
      Len(h) + 1)

PCG32_getState(h, g) ==
    R(h, [stateHi |-> h[g].stateHi, stateLo |-> h[g].stateLo,
          incHi |-> h[g].incHi, incLo |-> h[g].incLo,
          originalSeed |-> h[g].originalSeed,
          originalSequence |-> h[g].originalSequence])

PCG32_setState(h, g, savedState) ==
    R([h EXCEPT ![g].stateHi = Field(savedState, "stateHi"),
                ![g].stateLo = Field(savedState, "stateLo"),
                ![g].incHi = Field(savedState, "incHi"),
                ![g].incLo = Field(savedState, "incLo"),
                ![g].originalSeed = Field(savedState, "originalSeed"),
                ![g].originalSequence = Field(savedState, "originalSequence")], Undefined)

PCG32_reset(h, g) ==
    R(PCG32_seed(h, g, h[g].originalSeed, h[g].originalSequence), Undefined)

PCG32_clone(h, g) ==
    The({ R([c.h EXCEPT ![c.ret].stateHi = h[g].stateHi, ![c.ret].stateLo = h[g].stateLo,
                        ![c.ret].incHi = h[g].incHi, ![c.ret].incLo = h[g].incLo], c.ret) :
          c \in {PCG32_new(h, h[g].originalSeed, h[g].originalSequence)} })

\* ------------------------------------------------------------------------
\* SFC32
\* ------------------------------------------------------------------------

SFC32_new(h, seed) ==
    The({ Alloc(h, [name |-> Name_sfc32, originalSeed |-> seed,
                    a |-> seeds[1], b |-> seeds[2], c |-> seeds[3], counter |-> seeds[4]]) :
          seeds \in {StrSeeds(seed)} })

SFC32_nextInt(h, g) ==
    LET o  == h[g]
        t  == Shr(Add(Add(o.a, o.b), o.counter), 0)
        c1 == Shr(Or(Shl(o.c, 21), Shr(o.c, 11)), 0)
    IN  R([h EXCEPT ![g].counter = Add(o.counter, One),
                    ![g].a = Xor(o.b, Shr(o.b, 9)),
                    ![g].b = Shr(Add(o.c, Shl(o.c, 3)), 0),
                    ![g].c = Shr(Add(c1, t), 0)], t)

SFC32_next(h, g) ==
    The({ R(r.h, <<"frac">> \o r.ret) : r \in {SFC32_nextInt(h, g)} })

SFC32_getState(h, g) ==
    R(h, [a |-> h[g].a, b |-> h[g].b, c |-> h[g].c, counter |-> h[g].counter,
          originalSeed |-> h[g].originalSeed])

SFC32_setState(h, g, savedState) ==
    R([h EXCEPT ![g].a = Field(savedState, "a"), ![g].b = Field(savedState, "b"),
                ![g].c = Field(savedState, "c"),
                ![g].counter = Field(savedState, "counter"),
                ![g].originalSeed = Field(savedState, "originalSeed")], Undefined)

SFC32_reset(h, g) ==
    The({ R([h EXCEPT ![g].a = seeds[1], ![g].b = seeds[2], ![g].c = seeds[3],
                      ![g].counter = seeds[4]], Undefined) :
          seeds \in {StrSeeds(h[g].originalSeed)} })

SFC32_clone(h, g) ==
    The({ R([c.h EXCEPT ![c.ret].a = h[g].a, ![c.ret].b = h[g].b, ![c.ret].c = h[g].c,
                        ![c.ret].counter = h[g].counter], c.ret) :
          c \in {SFC32_new(h, h[g].originalSeed)} })

\* ------------------------------------------------------------------------
\* LCG: a = 1664525, c = 1013904223, m = 4294967296 unless given
\* ------------------------------------------------------------------------

LCG_a == <<0, 25, 26125>>
LCG_c == <<0, 15470, 62303>>
LCG_m == <<1, 0, 0>>

LCG_new(h, seed, a, c, m) ==
    The({ Alloc(h, [name |-> Name_lcg, seed |-> s, state |-> s, a |-> a, c |-> c, m |-> m]) :
          s \in {NumSeed(seed)} })

\* (this.a * this.state + this.c) % this.m in doubles; m is 2^32 in every
\* generator the facade builds, and the operands are never negative
LCG_nextInt(h, g) ==
    The({ R([h EXCEPT ![g].state = st], Shr(st, 0)) :
          st \in {IF IsNum(h[g].state) /\ h[g].m = LCG_m
                  THEN BigToUint32(DblAdd(DblMul(h[g].a, h[g].state), NumToBig(h[g].c)))
                  ELSE NaN} })

\* this.nextInt() / this.m
LCG_next(h, g) ==
    The({ R(r.h, <<"frac">> \o r.ret) : r \in {LCG_nextInt(h, g)} })

LCG_getState(h, g) ==
    R(h, [state |-> h[g].state, seed |-> h[g].seed, a |-> h[g].a, c |-> h[g].c, m |-> h[g].m])

\* a setState(savedState) that restores the state alone: this.state =
\* savedState.state
LCG_setStateOnly(h, g, savedState) ==
    R([h EXCEPT ![g].state = Field(savedState, "state")], Undefined)

\* Object.assign(this, savedState): every property of savedState is copied
LCG_setState(h, g, savedState) ==
    R([h EXCEPT ![g] = [f \in DOMAIN h[g] \cup DOMAIN savedState |->
                          IF f \in DOMAIN savedState THEN savedState[f] ELSE h[g][f]]],
      Undefined)

LCG_reset(h, g) == R([h EXCEPT ![g].state = h[g].seed], Undefined)

LCG_clone(h, g) ==
    The({ R([c.h EXCEPT ![c.ret].state = h[g].state], c.ret) :
          c \in {LCG_new(h, h[g].seed, h[g].a, h[g].c, h[g].m)} })

\* ------------------------------------------------------------------------
\* The PRNG facade. A facade is a cell [generator, spareNormal,
\* hasSpareNormal]; generator is the address of its bit generator (0 while
\* the constructor has not yet assigned one).
\* ------------------------------------------------------------------------

\* this.generator.<method>(): the method of the generator's class
Gen_next(h, g) ==
    CASE h[g].name = Name_mulberry32      -> Mulberry32_next(h, g)
      [] h[g].name = Name_xoshiro128ss    -> Xoshiro128SS_next(h, g)
      [] h[g].name = Name_xorshift128plus -> Xorshift128Plus_next(h, g)
      [] h[g].name = Name_pcg32           -> PCG32_next(h, g)
      [] h[g].name = Name_sfc32           -> SFC32_next(h, g)
      [] OTHER                            -> LCG_next(h, g)

Gen_nextInt(h, g) ==
    CASE h[g].name = Name_mulberry32      -> Mulberry32_nextInt(h, g)
      [] h[g].name = Name_xoshiro128ss    -> Xoshiro128SS_nextInt(h, g)
      [] h[g].name = Name_xorshift128plus -> Xorshift128Plus_nextInt(h, g)
      [] h[g].name = Name_pcg32           -> PCG32_nextInt(h, g)
      [] h[g].name = Name_sfc32           -> SFC32_nextInt(h, g)
      [] OTHER                            -> LCG_nextInt(h, g)

Gen_getState(h, g) ==
    CASE h[g].name = Name_mulberry32      -> Mulberry32_getState(h, g)
      [] h[g].name = Name_xoshiro128ss    -> Xoshiro128SS_getState(h, g)
      [] h[g].name = Name_xorshift128plus -> Xorshift128Plus_getState(h, g)
      [] h[g].name = Name_pcg32           -> PCG32_getState(h, g)
      [] h[g].name = Name_sfc32           -> SFC32_getState(h, g)
      [] OTHER                            -> LCG_getState(h, g)

\* generator.setState(savedState.generatorState): reading a property of an
\* undefined generatorState throws, except in Object.assign, which skips it
Gen_setState(h, g, savedState) ==
    IF "generatorState" \notin DOMAIN savedState
    THEN (IF h[g].name = Name_lcg THEN R(h, Undefined) ELSE Throw(h))
    ELSE LET gs == savedState.generatorState
         IN  CASE h[g].name = Name_mulberry32      -> Mulberry32_setState(h, g, gs)
               [] h[g].name = Name_xoshiro128ss    -> Xoshiro128SS_setState(h, g, gs)
               [] h[g].name = Name_xorshift128plus -> Xorshift128Plus_setState(h, g, gs)
               [] h[g].name = Name_pcg32           -> PCG32_setState(h, g, gs)
               [] h[g].name = Name_sfc32           -> SFC32_setState(h, g, gs)
               [] OTHER                            -> LCG_setState(h, g, gs)

Gen_reset(h, g) ==
    CASE h[g].name = Name_mulberry32      -> Mulberry32_reset(h, g)
      [] h[g].name = Name_xoshiro128ss    -> Xoshiro128SS_reset(h, g)
      [] h[g].name = Name_xorshift128plus -> Xorshift128Plus_reset(h, g)
      [] h[g].name = Name_pcg32           -> PCG32_reset(h, g)
      [] h[g].name = Name_sfc32           -> SFC32_reset(h, g)
      [] OTHER                            -> LCG_reset(h, g)

Gen_clone(h, g) ==
    CASE h[g].name = Name_mulberry32      -> Mulberry32_clone(h, g)
      [] h[g].name = Name_xoshiro128ss    -> Xoshiro128SS_clone(h, g)
      [] h[g].name = Name_xorshift128plus -> Xorshift128Plus_clone(h, g)
      [] h[g].name = Name_pcg32           -> PCG32_clone(h, g)
      [] h[g].name = Name_sfc32           -> SFC32_clone(h, g)
      [] OTHER                            -> LCG_clone(h, g)

\* String.prototype.toLowerCase on ASCII
toLowerCase(str) ==
    Str([i \in 1..Len(str[2]) |->
            IF str[2][i] >= 65 /\ str[2][i] <= 90 THEN str[2][i] + 32 ELSE str[2][i]])

\* the switch of setSeed on algorithm.toLowerCase(): the generator it builds;
\* default: throw new Error(`Unknown algorithm: ...`)
PRNG_switch(h, key, seed) ==
    CASE key = Str(<<109, 117, 108, 98, 101, 114, 114, 121, 51, 50>>)  \* 'mulberry32'
         \/ key = Str(<<109, 117, 108, 98, 101, 114, 114, 121>>)       \* 'mulberry'
         -> Mulberry32_new(h, seed)
      [] key = Str(<<120, 111, 115, 104, 105, 114, 111, 49, 50, 56>>)  \* 'xoshiro128'
         \/ key = Str(<<120, 111, 115, 104, 105, 114, 111, 49, 50, 56, 42, 42>>)  \* 'xoshiro128**'
         \/ key = Str(<<120, 111, 115, 104, 105, 114, 111>>)           \* 'xoshiro'
         -> Xoshiro128SS_new(h, seed)
      [] key = Str(<<120, 111, 114, 115, 104, 105, 102, 116, 49, 50, 56>>)  \* 'xorshift128'
         \/ key = Str(<<120, 111, 114, 115, 104, 105, 102, 116, 49, 50, 56, 43>>)  \* 'xorshift128+'
         \/ key = Str(<<120, 111, 114, 115, 104, 105, 102, 116>>)      \* 'xorshift'
         -> Xorshift128Plus_new(h, seed)
      [] key = Str(<<112, 99, 103, 51, 50>>)                           \* 'pcg32'
         \/ key = Str(<<112, 99, 103>>)                                \* 'pcg'
         -> PCG32_new(h, seed, One)
      [] key = Str(<<115, 102, 99, 51, 50>>)                           \* 'sfc32'
         \/ key = Str(<<115, 102, 99>>)                                \* 'sfc'
         -> SFC32_new(h, seed)
      [] key = Str(<<108, 99, 103>>)                                   \* 'lcg'
         -> LCG_new(h, seed, LCG_a, LCG_c, LCG_m)
      [] OTHER -> Throw(h)

\* a setSeed(seed, algorithm) that leaves the NormalCache as it is
PRNG_setSeedKeepCache(h, p, seed, algorithm) ==
    The({ IF g.thrown THEN Throw(h)
          ELSE R([g.h EXCEPT ![p].generator = g.ret], Undefined) :
          g \in { IF ~IsStr(alg) THEN Throw(h) ELSE PRNG_switch(h, toLowerCase(alg), seed) :
                  alg \in {IF ~IsUndefined(algorithm) THEN algorithm
                           ELSE IF h[p].generator # 0 THEN h[h[p].generator].name
                           ELSE Str(<<120, 111, 115, 104, 105, 114, 111, 49, 50, 56>>)} } })

\* a setSeed(seed, algorithm) that compares the key as it is written
PRNG_setSeedCaseSensitive(h, p, seed, algorithm) ==
    The({ IF g.thrown THEN Throw(h)
          ELSE R([g.h EXCEPT ![p].generator = g.ret,
                             ![p].spareNormal = Null,
                             ![p].hasSpareNormal = FALSE], Undefined) :
          g \in { IF ~IsStr(alg) THEN Throw(h) ELSE PRNG_switch(h, alg, seed) :
                  alg \in {IF ~IsUndefined(algorithm) THEN algorithm
                           ELSE IF h[p].generator # 0 THEN h[h[p].generator].name
                           ELSE Str(<<120, 111, 115, 104, 105, 114, 111, 49, 50, 56>>)} } })

\* setSeed(seed, algorithm = this.generator?.name || 'xoshiro128'): the switch
\* throws before anything is assigned; a key that is no string has no
\* toLowerCase (TypeError)
PRNG_setSeed(h, p, seed, algorithm) ==
    The({ IF g.thrown THEN Throw(h)
          ELSE R([g.h EXCEPT ![p].generator = g.ret,
                             ![p].spareNormal = Null,
                             ![p].hasSpareNormal = FALSE], Undefined) :
          g \in { IF ~IsStr(alg) THEN Throw(h) ELSE PRNG_switch(h, toLowerCase(alg), seed) :
                  alg \in {IF ~IsUndefined(algorithm) THEN algorithm
                           ELSE IF h[p].generator # 0 THEN h[h[p].generator].name
                           ELSE Str(<<120, 111, 115, 104, 105, 114, 111, 49, 50, 56>>)} } })

\* new PRNG(seed, algorithm = 'xoshiro128')
PRNG_new(h, seed, algorithm) ==
    The({ IF r.thrown THEN Throw(h) ELSE R(r.h, Len(h) + 1) :
          r \in {PRNG_setSeed(Append(h, [generator |-> 0, spareNormal |-> Undefined,
                                         hasSpareNormal |-> FALSE]),
                              Len(h) + 1, seed, algorithm)} })

PRNG_random(h, p)    == Gen_next(h, h[p].generator)
PRNG_randomInt(h, p) == Gen_nextInt(h, h[p].generator)

\* Math.floor(x * n) + min for x = r / 2^32 and 0 < n < 2^21: the product
\* r * n is below 2^53, so it is exact and its floor is its part above 2^32
FloorScale(r, n, min) ==
    The({ Add(<<0, prod[1] \div B16, prod[1] % B16>>, min) : prod \in {Mul(r, n)} })

\* the Number of an integer n with |n| < 2^32
IntNum(n) ==
    IF n >= 0 THEN <<0, n \div B16, n % B16>> ELSE Neg(<<0, (-n) \div B16, (-n) % B16>>)
\* Math.ceil and Math.floor of a Number, or of a bound <<"frac", k, hi, lo>>
\* with a fraction, which stands for k + (hi * 2^16 + lo) / 2^32
MathCeil(x) ==
    IF Len(x) = 4 THEN IntNum(IF x[3] = 0 /\ x[4] = 0 THEN x[2] ELSE x[2] + 1) ELSE x
MathFloor(x) == IF Len(x) = 4 THEN IntNum(x[2]) ELSE x

\* an int(min, max) that takes the bounds as they are given
PRNG_intNoRounding(h, p, min, max) ==
    The({ IF Len(r.ret) # 4 THEN R(r.h, NaN)
          ELSE R(r.h, FloorScale(<<r.ret[2], r.ret[3], r.ret[4]>>,
                                 Add(Sub(b[2], b[1]), One), b[1])) :
          r \in {PRNG_random(h, p)},
          b \in {<<MathFloor(min), MathCeil(max)>>} })

\* int(min, max) for ceil(min) <= floor(max) with floor(max) - ceil(min) + 1
\* below 2^21: min = Math.ceil(min); max = Math.floor(max);
\* Math.floor(this.random() * (max - min + 1)) + min
PRNG_int(h, p, min, max) ==
    The({ IF Len(r.ret) # 4 THEN R(r.h, NaN)
          ELSE R(r.h, FloorScale(<<r.ret[2], r.ret[3], r.ret[4]>>,
                                 Add(Sub(b[2], b[1]), One), b[1])) :
          r \in {PRNG_random(h, p)},
          b \in {<<MathCeil(min), MathFloor(max)>>} })

\* x * 2 - 1 for x = n / 2^32: exactly (n - 2^31) / 2^31, held as n - 2^31
Centre(x) == Sub(<<x[2], x[3], x[4]>>, <<0, 32768, 0>>)
Abs(x)    == IF x[1] < 0 THEN Neg(x) ELSE x
\* x * x for a Number x, in doubles
Square(x) == The({ DblMul(a, a) : a \in {Abs(x)} })

\* normal() with mean = 0 and stdDev = 1. u, v are held as U, V with
\* u = U / 2^31, and s = u * u + v * v as the limbs of s * 2^62, rounded as the
\* doubles are; s >= 1 is 63 bits or more. The value u * mul, with
\* mul = Math.sqrt(-2 * Math.log(s) / s), is the term <<"bm", "u", U, V, s>>,
\* and v * mul is <<"bm", "v", U, V, s>>; times 1 plus 0 leaves them as they are.
\* one pass of the do-while body: the heap after its two random() calls
\* and u, v, s (s is <<>> when a draw was no number)
PRNG_normalPass(h, p) ==
    The({ The({ IF Len(r1.ret) # 4 \/ Len(r2.ret) # 4
                THEN [h |-> r2.h, u |-> NaN, v |-> NaN, s |-> <<>>]
                ELSE The({ [h |-> r2.h, u |-> u, v |-> v, s |-> DblAdd(Square(u), Square(v))] :
                           u \in {Centre(r1.ret)}, v \in {Centre(r2.ret)} }) :
                r2 \in {PRNG_random(r1.h, p)} }) :
          r1 \in {PRNG_random(h, p)} })

RECURSIVE PRNG_normalLoop(_, _)
PRNG_normalLoop(h, p) ==
    The({ IF a.s = <<>>
          THEN R([a.h EXCEPT ![p].spareNormal = NaN, ![p].hasSpareNormal = TRUE], NaN)
          \* while (s >= 1 || s === 0)
          ELSE IF BigBitLen(a.s) >= 63 \/ a.s = <<0>>
          THEN PRNG_normalLoop(a.h, p)
          ELSE R([a.h EXCEPT ![p].spareNormal = <<"bm", "v", a.u, a.v, a.s>>,
                             ![p].hasSpareNormal = TRUE],
                 <<"bm", "u", a.u, a.v, a.s>>) :
          a \in {PRNG_normalPass(h, p)} })

PRNG_normal(h, p) ==
    IF h[p].hasSpareNormal
    THEN R([h EXCEPT ![p].hasSpareNormal = FALSE], h[p].spareNormal)
    ELSE PRNG_normalLoop(h, p)

\* x * stdDev + mean for a value x of normal(): x itself when stdDev is 1 and
\* mean 0, otherwise the term of the two operations
Affine(x, stdDev, mean) ==
    IF stdDev = One /\ mean = Zero THEN x
    ELSE IF IsNaN(x) THEN NaN
    ELSE <<"affine", x, stdDev, mean, "*", "+">>

\* a normal(mean, stdDev) that caches the spare scaled and shifted by the
\* parameters of the call that made it
PRNG_normalScaledSpare(h, p, mean, stdDev) ==
    The({ IF h[p].hasSpareNormal THEN r
          ELSE R([r.h EXCEPT ![p].spareNormal = Affine(@, stdDev, mean)],
                 Affine(r.ret, stdDev, mean)) :
          r \in {PRNG_normal(h, p)} })

\* normal(mean, stdDev): the spare is cached as v * mul, and the value
\* returned, fresh or spare, is scaled and shifted by this call's parameters
PRNG_normalWith(h, p, mean, stdDev) ==
    The({ R(r.h, Affine(r.ret, stdDev, mean)) : r \in {PRNG_normal(h, p)} })

PRNG_getState(h, p) ==
    The({ R(g.h, [algorithm      |-> h[h[p].generator].name,
                  generatorState |-> g.ret,
                  normalCache    |-> [spare    |-> h[p].spareNormal,
                                      hasSpare |-> h[p].hasSpareNormal]]) :
          g \in {Gen_getState(h, h[p].generator)} })

\* a setState(savedState) that does not restore the NormalCache
PRNG_setStateNoCache(h, p, savedState) ==
    The({ IF r1.thrown THEN Throw(h)
          ELSE The({ IF r2.thrown \/ "normalCache" \notin DOMAIN savedState
                     THEN Throw(r2.h) ELSE R(r2.h, Undefined) :
                     r2 \in {Gen_setState(r1.h, r1.h[p].generator, savedState)} }) :
          r1 \in {PRNG_setSeed(h, p, Zero, Field(savedState, "algorithm"))} })

\* setState(savedState): a throw leaves what the statements before it did
PRNG_setState(h, p, savedState) ==
    The({ IF r1.thrown THEN Throw(h)
          ELSE The({ IF r2.thrown \/ "normalCache" \notin DOMAIN savedState
                     THEN Throw(r2.h)
                     ELSE R([r2.h EXCEPT
                               ![p].spareNormal = Field(savedState.normalCache, "spare"),
                               ![p].hasSpareNormal = savedState.normalCache.hasSpare],
                            Undefined) :
                     r2 \in {Gen_setState(r1.h, r1.h[p].generator, savedState)} }) :
          r1 \in {PRNG_setSeed(h, p, Zero, Field(savedState, "algorithm"))} })

\* a reset() that leaves the NormalCache as it is
PRNG_resetKeepSpare(h, p) ==
    The({ R(r.h, Undefined) : r \in {Gen_reset(h, h[p].generator)} })

\* a reset() of the facade that does not reach the generator
PRNG_resetCacheOnly(h, p) ==
    R([h EXCEPT ![p].spareNormal = Null, ![p].hasSpareNormal = FALSE], Undefined)

PRNG_reset(h, p) ==
    The({ R([r.h EXCEPT ![p].spareNormal = Null, ![p].hasSpareNormal = FALSE], Undefined) :
          r \in {Gen_reset(h, h[p].generator)} })

\* a clone() that leaves the clone's NormalCache empty
PRNG_cloneNoSpare(h, p) ==
    The({ IF c.thrown THEN Throw(h)
          ELSE The({ R([g.h EXCEPT ![c.ret].generator = g.ret], c.ret) :
                     g \in {Gen_clone(c.h, h[p].generator)} }) :
          c \in {PRNG_new(h, Zero, h[h[p].generator].name)} })

PRNG_clone(h, p) ==
    The({ IF c.thrown THEN Throw(h)
          ELSE The({ R([g.h EXCEPT ![c.ret].generator = g.ret,
                                   ![c.ret].spareNormal = h[p].spareNormal,
                                   ![c.ret].hasSpareNormal = h[p].hasSpareNormal], c.ret) :
                     g \in {Gen_clone(c.h, h[p].generator)} }) :
          c \in {PRNG_new(h, Zero, h[h[p].generator].name)} })

\* name + '_' + d + '_' + label
DerivedSeed(name, d, label) ==
    Concat(Concat(Concat(Concat(name, Str(<<95>>)), JsString(d)), Str(<<95>>)), label)

\* a fork(label) that draws from the parent twice
PRNG_forkTwoDraws(h, p, label) ==
    The({ PRNG_new(d[1].h, d[2], h[h[p].generator].name) :
          d \in { <<r, DerivedSeed(h[h[p].generator].name, r.ret, label)>> :
                  r \in {PRNG_randomInt(PRNG_randomInt(h, p).h, p)} } })

\* a fork(label) that leaves the label out of the derived seed
PRNG_forkNoLabel(h, p, label) ==
    The({ PRNG_new(d[1].h, d[2], h[h[p].generator].name) :
          d \in { <<r, DerivedSeed(h[h[p].generator].name, r.ret, Str(<<>>))>> :
                  r \in {PRNG_randomInt(h, p)} } })

\* fork(label): const derivedSeed = this.generator.name + '_' + this.randomInt()
\* + '_' + label; return new PRNG(derivedSeed, this.generator.name)
PRNG_fork(h, p, label) ==
    The({ PRNG_new(d[1].h, d[2], h[h[p].generator].name) :
          d \in { <<r, DerivedSeed(h[h[p].generator].name, r.ret, label)>> :
                  r \in {PRNG_randomInt(h, p)} } })

\* ------------------------------------------------------------------------
\* The facade's utilities. A JavaScript array is a cell [arr]; a method is
\* passed its address.
\* ------------------------------------------------------------------------

\* [array[i], array[j]] = [array[j], array[i]]; j is NaN when the draw was no
\* number, array[NaN] reads undefined and the store to it adds no element
Swap(h, array, i, j) ==
    IF ~IsNum(j) THEN [h EXCEPT ![array].arr[i + 1] = Undefined]
    ELSE [h EXCEPT ![array].arr = [k \in 1..Len(@) |->
                                     IF k = i + 1 THEN @[j[3] + 1]
                                     ELSE IF k = j[3] + 1 THEN @[i + 1] ELSE @[k]]]

\* one iteration: const j = this.int(0, i); swap array[i] and array[j]
shuffleStep(h, p, array, i) ==
    The({ Swap(r.h, array, i, r.ret) : r \in {PRNG_int(h, p, Zero, IntNum(i))} })

\* the iterations i = hi down to lo of the loop, in order: the heap they leave
RECURSIVE PRNG_shuffleLoop(_, _, _, _, _)
PRNG_shuffleLoop(h, p, array, hi, lo) ==
    IF hi < lo THEN h
    ELSE IF hi = lo THEN shuffleStep(h, p, array, hi)
    ELSE The({ PRNG_shuffleLoop(m, p, array, (lo + hi) \div 2, lo) :
               m \in {PRNG_shuffleLoop(h, p, array, hi, (lo + hi) \div 2 + 1)} })

\* a shuffle(array) whose loop runs while i >= 0: one more draw, for i = 0
PRNG_shuffleToZero(h, p, array) ==
    R(PRNG_shuffleLoop(h, p, array, Len(h[array].arr) - 1, 0), array)

\* shuffle(array): for (let i = array.length - 1; i > 0; i--) { ... }; in
\* place, returns array
PRNG_shuffle(h, p, array) ==
    R(PRNG_shuffleLoop(h, p, array, Len(h[array].arr) - 1, 1), array)

\* a shuffled(array) without the copy: this.shuffle(array)
PRNG_shuffledInPlace(h, p, array) == PRNG_shuffle(h, p, array)

\* shuffled(array): this.shuffle([...array])
PRNG_shuffled(h, p, array) ==
    The({ PRNG_shuffle(c.h, p, c.ret) : c \in {Alloc(h, [arr |-> h[array].arr])} })

\* a sample(array, n) that draws n elements one by one:
\* this.pick(array), n times
RECURSIVE PRNG_sampleWithReplacement(_, _, _, _)
PRNG_sampleWithReplacement(h, p, array, n) ==
    IF n[3] = 0 \/ Len(h[array].arr) = 0 THEN Alloc(h, [arr |-> <<>>])
    ELSE The({ The({ R([s.h EXCEPT ![s.ret].arr = Append(@, h[array].arr[r.ret[3] + 1])],
                       s.ret) :
                     s \in {PRNG_sampleWithReplacement(r.h, p, array, IntNum(n[3] - 1))} }) :
               r \in {PRNG_int(h, p, Zero, IntNum(Len(h[array].arr) - 1))} })

\* sample(array, n) for an integer n >= 0:
\* this.shuffled(array).slice(0, Math.min(n, array.length))
PRNG_sample(h, p, array, n) ==
    The({ Alloc(s.h, [arr |-> SubSeq(s.h[s.ret].arr, 1,
                                     IF n[3] < Len(h[array].arr) THEN n[3]
                                     ELSE Len(h[array].arr))]) :
          s \in {PRNG_shuffled(h, p, array)} })

\* hex[d] for hex = '0123456789abcdef': the character's code; hex[NaN] is
\* undefined, and uuid += undefined appends 'undefined'
HexChar(d) ==
    IF ~IsNum(d) THEN <<117, 110, 100, 101, 102, 105, 110, 101, 100>>
    ELSE IF d[3] < 10 THEN <<48 + d[3]>> ELSE <<87 + d[3]>>

\* a loop body that draws the character at 19 as it draws the others
uuidStepNoVariant(acc, p, i) ==
    IF i \in {8, 13, 18, 23} THEN [acc EXCEPT !.uuid = @ \o <<45>>]
    ELSE IF i = 14 THEN [acc EXCEPT !.uuid = @ \o <<52>>]
    ELSE The({ [h |-> r.h, uuid |-> acc.uuid \o HexChar(r.ret)] :
               r \in {PRNG_int(acc.h, p, Zero, Small(15))} })

\* the body of uuid()'s loop at i: acc is the heap and the string so far
uuidStep(acc, p, i) ==
    IF i \in {8, 13, 18, 23} THEN [acc EXCEPT !.uuid = @ \o <<45>>]
    ELSE IF i = 14 THEN [acc EXCEPT !.uuid = @ \o <<52>>]
    ELSE The({ [h |-> r.h,
                uuid |-> acc.uuid \o HexChar(IF i = 19 THEN Or(And(r.ret, Small(3)), Small(8))
                                             ELSE r.ret)] :
               r \in {PRNG_int(acc.h, p, Zero, Small(15))} })

\* the iterations lo..hi of the loop, in order
RECURSIVE uuidLoop(_, _, _, _)
uuidLoop(acc, p, lo, hi) ==
    IF lo = hi THEN uuidStep(acc, p, lo)
    ELSE The({ uuidLoop(m, p, (lo + hi) \div 2 + 1, hi) :
               m \in {uuidLoop(acc, p, lo, (lo + hi) \div 2)} })

\* uuid(): for (let i = 0; i < 36; i++)
PRNG_uuid(h, p) ==
    The({ R(a.h, Str(a.uuid)) : a \in {uuidLoop([h |-> h, uuid |-> <<>>], p, 0, 35)} })

\* weights.reduce((sum, w) => sum + w, 0)
RECURSIVE SumFrom(_, _, _)
SumFrom(weights, i, sum) ==
    IF i > Len(weights) THEN sum ELSE SumFrom(weights, i + 1, Add(sum, weights[i]))

\* x <= 0 on Numbers
LeqZero(x) == IsNum(x) /\ (x[1] < 0 \/ x = Zero)

\* the loop of weightedPick from index i on; random is held as random * 2^32,
\* and a weight w below 2^16 is <<w, 0, 0>> on that scale
RECURSIVE weightedPickLoop(_, _, _, _)
weightedPickLoop(items, weights, i, random) ==
    IF i > Len(items)
    THEN (IF Len(items) = 0 THEN Undefined ELSE items[Len(items)])
    ELSE The({ IF LeqZero(left) THEN items[i]
               ELSE weightedPickLoop(items, weights, i + 1, left) :
               left \in {Sub(random, <<weights[i][3], 0, 0>>)} })

\* a weightedPick that draws before it compares the lengths
PRNG_weightedPickDrawFirst(h, p, items, weights) ==
    The({ IF Len(h[items].arr) # Len(h[weights].arr) THEN Throw(r.h)
          ELSE R(r.h, weightedPickLoop(h[items].arr, h[weights].arr, 1,
                        IF Len(r.ret) # 4 THEN NaN
                        ELSE Mul(<<r.ret[2], r.ret[3], r.ret[4]>>,
                                 SumFrom(h[weights].arr, 1, Zero)))) :
          r \in {PRNG_random(h, p)} })

\* weightedPick(items, weights), the weights integers from 0 to 65535
PRNG_weightedPick(h, p, items, weights) ==
    IF Len(h[items].arr) # Len(h[weights].arr) THEN Throw(h)
    ELSE The({ R(r.h, weightedPickLoop(h[items].arr, h[weights].arr, 1,
                        IF Len(r.ret) # 4 THEN NaN
                        ELSE Mul(<<r.ret[2], r.ret[3], r.ret[4]>>,
                                 SumFrom(h[weights].arr, 1, Zero)))) :
               r \in {PRNG_random(h, p)} })

\* beta(alpha, beta) with a parameter that is not positive: the check throws.
\* With both positive the method goes on to gamma(), which this module does
\* not cover; no such call is made.
PRNG_beta(h, p, alpha, beta) ==
    CASE LeqZero(alpha) \/ LeqZero(beta) -> Throw(h)

\* ------------------------------------------------------------------------
\* Noise fields. A coordinate is held in quarters, <<"q", n>> for n / 4, or
\* is null: floors, fractions and products with an integer frequency are
\* exact in doubles for such values. What a noise method returns is a record:
\* value, the term the method computes, with the table entries it read in
\* place and the floating-point interpolation left symbolic; reads, the
\* table reads it made, in order, each <<table, index, entry>>; call, the
\* method and its arguments.
\* ------------------------------------------------------------------------
Q(n)      == <<"q", n>>
FloorQ(c) == c[2] \div 4      \* Math.floor(x)
FracQ(c)  == c[2] % 4         \* x - Math.floor(x), in quarters
\* x * frequency for an integer frequency; null * frequency is 0
Times(c, frequency) == IF c = Null THEN Q(0) ELSE Q(c[2] * frequency)

\* table[index], the index a Number or NaN: undefined unless the index is an
\* integer within the table
TableGet(h, a, index) ==
    IF IsNum(index) /\ index[1] = 0 /\ index[2] = 0 /\ index[3] < Len(h[a].arr)
    THEN h[a].arr[index[3] + 1] ELSE Undefined
\* a + b for a Number a and a table entry b: NaN when the entry is undefined
Plus(a, b) == IF IsNum(a) /\ IsNum(b) THEN Add(a, b) ELSE NaN
\* n & 255 for an integer n
Masked(n) == And(IntNum(n), Small(255))[3]
\* a value under the name of the call that returned it
Called(call, v) == [call |-> call, value |-> v.value, reads |-> v.reads]

\* amplitudes are held as fractions <<numerator, denominator>>
RatMul(a, b) == <<a[1] * b[1], a[2] * b[2]>>
RatAdd(a, b) == <<a[1] * b[2] + b[1] * a[2], a[2] * b[2]>>

Key_xoshiro128 == Str(<<120, 111, 115, 104, 105, 114, 111, 49, 50, 56>>)
\* Array.from({ length: 256 }, (_, i) => i)
Range256(h) == Alloc(h, [arr |-> [i \in 1..256 |-> Small(i - 1)]])

\* a _generatePermutation() that returns p as it is: return [...p]
ValueNoise_generatePermutationOnce(h, n) ==
    The({ Alloc(s.h, [arr |-> s.h[s.ret].arr]) :
          s \in { PRNG_shuffle(p.h, h[n].rng, p.ret) : p \in {Range256(h)} } })

\* _generatePermutation(): p shuffled by this.rng; return [...p, ...p]
ValueNoise_generatePermutation(h, n) ==
    The({ Alloc(s.h, [arr |-> s.h[s.ret].arr \o s.h[s.ret].arr]) :
          s \in { PRNG_shuffle(p.h, h[n].rng, p.ret) : p \in {Range256(h)} } })

\* new ValueNoise(seed)
ValueNoise_new(h, seed) ==
    The({ The({ R([t.h EXCEPT ![n.ret].permutation = t.ret], n.ret) :
                t \in {ValueNoise_generatePermutation(n.h, n.ret)} }) :
          n \in { Alloc(r.h, [class |-> "ValueNoise", rng |-> r.ret, permutation |-> 0]) :
                  r \in {PRNG_new(h, seed, Key_xoshiro128)} } })

\* for (const c of coords) hash = this.permutation[(hash + c) & 255], from
\* the hash and the reads of acc on
RECURSIVE ValueNoise_hashFrom(_, _, _, _)
ValueNoise_hashFrom(h, n, coords, acc) ==
    IF coords = <<>> THEN acc
    ELSE The({ ValueNoise_hashFrom(h, n, Tail(coords),
                   [hash  |-> TableGet(h, h[n].permutation, index),
                    reads |-> Append(acc.reads,
                                     <<"permutation", index,
                                       TableGet(h, h[n].permutation, index)>>)]) :
               index \in {And(Plus(acc.hash, IntNum(Head(coords))), Small(255))} })

\* _hash(...coords): hash / 255
ValueNoise_hash(h, n, coords) ==
    The({ [value |-> <<"/255", r.hash>>, reads |-> r.reads] :
          r \in {ValueNoise_hashFrom(h, n, coords, [hash |-> Zero, reads |-> <<>>])} })

\* this._lerp(a, b, this._fade(t)) for t in quarters; a is evaluated first
Lerp(a, b, t) ==
    [value |-> <<"lerp", a.value, b.value, <<"fade", t>>>>, reads |-> a.reads \o b.reads]

\* a noise1D(x) that also takes a step of the generator
ValueNoise_noise1DDrawing(h, n, x) ==
    The({ R(PRNG_random(h, h[n].rng).h,
            Called(<<"noise1D", x>>,
                   Lerp(ValueNoise_hash(h, n, <<xi>>), ValueNoise_hash(h, n, <<xi + 1>>),
                        FracQ(x)))) :
          xi \in {Masked(FloorQ(x))} })

\* noise1D(x): xi = Math.floor(x) & 255; xf = x - Math.floor(x)
ValueNoise_noise1D(h, n, x) ==
    The({ R(h, Called(<<"noise1D", x>>,
                      Lerp(ValueNoise_hash(h, n, <<xi>>), ValueNoise_hash(h, n, <<xi + 1>>),
                           FracQ(x)))) :
          xi \in {Masked(FloorQ(x))} })

\* noise2D(x, y)
ValueNoise_noise2D(h, n, x, y) ==
    The({ R(h, Called(<<"noise2D", x, y>>,
                 Lerp(Lerp(ValueNoise_hash(h, n, <<xi, yi>>),
                           ValueNoise_hash(h, n, <<xi + 1, yi>>), FracQ(x)),
                      Lerp(ValueNoise_hash(h, n, <<xi, yi + 1>>),
                           ValueNoise_hash(h, n, <<xi + 1, yi + 1>>), FracQ(x)),
                      FracQ(y)))) :
          xi \in {Masked(FloorQ(x))}, yi \in {Masked(FloorQ(y))} })

\* noise3D(x, y, z)
ValueNoise_noise3D(h, n, x, y, z) ==
    The({ R(h, Called(<<"noise3D", x, y, z>>,
                 Lerp(Lerp(Lerp(ValueNoise_hash(h, n, <<xi, yi, zi>>),
                                ValueNoise_hash(h, n, <<xi + 1, yi, zi>>), FracQ(x)),
                           Lerp(ValueNoise_hash(h, n, <<xi, yi + 1, zi>>),
                                ValueNoise_hash(h, n, <<xi + 1, yi + 1, zi>>), FracQ(x)),
                           FracQ(y)),
                      Lerp(Lerp(ValueNoise_hash(h, n, <<xi, yi, zi + 1>>),
                                ValueNoise_hash(h, n, <<xi + 1, yi, zi + 1>>), FracQ(x)),
                           Lerp(ValueNoise_hash(h, n, <<xi, yi + 1, zi + 1>>),
                                ValueNoise_hash(h, n, <<xi + 1, yi + 1, zi + 1>>), FracQ(x)),
                           FracQ(y)),
                      FracQ(z)))) :
          xi \in {Masked(FloorQ(x))}, yi \in {Masked(FloorQ(y))}, zi \in {Masked(FloorQ(z))} })

\* what the loop of fbm holds before its first octave: value (its terms,
\* <<amplitude, noise value>>), amplitude, frequency, maxValue
FbmStart(h) ==
    [h |-> h, terms |-> <<>>, amplitude |-> <<1, 1>>, frequency |-> 1, maxValue |-> <<0, 1>>]
\* value += amplitude * v (when a noise was evaluated); maxValue += amplitude;
\* amplitude *= persistence; frequency *= lacunarity
FbmOctave(acc, vs, lacunarity, persistence) ==
    [h         |-> IF vs = <<>> THEN acc.h ELSE vs[1].h,
     terms     |-> IF vs = <<>> THEN acc.terms
                   ELSE Append(acc.terms, <<acc.amplitude, vs[1].ret>>),
     amplitude |-> RatMul(acc.amplitude, persistence),
     frequency |-> acc.frequency * lacunarity,
     maxValue  |-> RatAdd(acc.maxValue, acc.amplitude)]
\* return value / maxValue
RECURSIVE Flatten(_)
Flatten(terms) == IF terms = <<>> THEN <<>> ELSE Head(terms)[2].reads \o Flatten(Tail(terms))
FbmReturn(acc, call) ==
    R(acc.h, [call  |-> call,
              value |-> <<"/", [k \in 1..Len(acc.terms) |->
                                   <<acc.terms[k][1], acc.terms[k][2].value>>],
                          acc.maxValue>>,
              reads |-> Flatten(acc.terms),
              terms |-> [k \in 1..Len(acc.terms) |->
                            <<acc.terms[k][1], acc.terms[k][2].call>>],
              maxValue |-> acc.maxValue])

\* the octaves of ValueNoise.fbm that are left
RECURSIVE ValueNoise_fbmLoop(_, _, _, _, _, _, _, _)
ValueNoise_fbmLoop(acc, n, x, y, z, left, lacunarity, persistence) ==
    IF left <= 0 THEN acc
    ELSE The({ ValueNoise_fbmLoop(FbmOctave(acc, <<v>>, lacunarity, persistence),
                                  n, x, y, z, left - 1, lacunarity, persistence) :
               v \in { IF z # Null
                       THEN ValueNoise_noise3D(acc.h, n, Times(x, f), Times(y, f), Times(z, f))
                       ELSE IF y # Null
                       THEN ValueNoise_noise2D(acc.h, n, Times(x, f), Times(y, f))
                       ELSE ValueNoise_noise1D(acc.h, n, Times(x, f)) :
                       f \in {acc.frequency} } })

\* fbm(x, y = null, z = null, octaves = 4, lacunarity = 2, persistence = 0.5),
\* lacunarity an integer and persistence a fraction
ValueNoise_fbm(h, n, x, y, z, octaves, lacunarity, persistence) ==
    FbmReturn(ValueNoise_fbmLoop(FbmStart(h), n, x, y, z, octaves, lacunarity, persistence),
              <<"fbm", x, y, z, octaves, lacunarity, persistence>>)

\* a Uint8Array stores the value modulo 256, and 0 for what is no number
ToUint8(v) == IF IsNum(v) THEN Small(v[3] % 256) ELSE Zero

\* for (let i = 0; i < 512; i++) this.perm[i] = p[i & 255]: the elements of
\* perm for the elements p (i & 255 is i % 256 for these i)
Perm512(p) == [i \in 1..512 |-> ToUint8(p[((i - 1) % 256) + 1])]
\* this.permMod12[i] = this.perm[i] % 12
PermMod12(perm) == [i \in 1..512 |-> ToUint8(Small(perm[i][3] % 12))]

\* the start of the constructor: this.rng = new PRNG(seed, 'xoshiro128');
\* p = Array.from(...); this.rng.shuffle(p)
SimplexNoise_shuffle(h, seed) ==
    The({ The({ [h |-> s.h, rng |-> r.ret, p |-> s.ret] :
                s \in { PRNG_shuffle(p.h, r.ret, p.ret) : p \in {Range256(r.h)} } }) :
          r \in {PRNG_new(h, seed, Key_xoshiro128)} })

\* new SimplexNoise(seed)
SimplexNoise_new(h, seed) ==
    The({ The({ The({ Alloc(b.h, [class |-> "SimplexNoise", rng |-> s.rng,
                                  perm |-> a.ret, permMod12 |-> b.ret]) :
                      b \in {Alloc(a.h, [arr |-> PermMod12(a.h[a.ret].arr)])} }) :
                a \in {Alloc(s.h, [arr |-> Perm512(s.h[s.p].arr)])} }) :
          s \in {SimplexNoise_shuffle(h, seed)} })

\* floor(c * sqrt(3)) for an integer c
Sqrt3Floor(c) ==
    IF c >= 0 THEN CHOOSE r \in 0..(2 * c) : r * r <= 3 * c * c /\ 3 * c * c < (r + 1) * (r + 1)
    ELSE -(CHOOSE r \in 0..(-2 * c) : r * r <= 3 * c * c /\ 3 * c * c < (r + 1) * (r + 1)) - 1

\* the cell of noise2D: s = (xin + yin) * F2 with F2 = (sqrt(3) - 1) / 2,
\* i = Math.floor(xin + s), j = Math.floor(yin + s). For xin = a / 4 and
\* yin = b / 4, xin + s is (a - b + (a + b) * sqrt(3)) / 8, which is no
\* integer unless a + b = 0 and is far from one by more than the rounding
\* of the doubles
Cell2(xin, yin) ==
    The({ <<(xin[2] - yin[2] + m) \div 8, (yin[2] - xin[2] + m) \div 8>> :
          m \in {Sqrt3Floor(xin[2] + yin[2])} })
\* the cell of noise3D: s = (xin + yin + zin) / 3, i = Math.floor(xin + s):
\* xin + s is (4a + b + c) / 12
Cell3(xin, yin, zin) ==
    << (4 * xin[2] + yin[2] + zin[2]) \div 12,
       (xin[2] + 4 * yin[2] + zin[2]) \div 12,
       (xin[2] + yin[2] + 4 * zin[2]) \div 12 >>

\* what a comparison of two of x0, y0, z0 can give. x0 - y0 is
\* (xin - i) - (yin - j) in exact arithmetic, u - v here in quarters; when
\* that is 0 the doubles x0 and y0 differ by their rounding, and either
\* outcome is taken to be possible unless xin and yin are the same number,
\* which makes x0 and y0 the same double
Gt(u, v, same)  == IF u # v THEN {u > v} ELSE IF same THEN {FALSE} ELSE BOOLEAN
Geq(u, v, same) == IF u # v THEN {u > v} ELSE IF same THEN {TRUE} ELSE BOOLEAN
\* x0 > y0 in noise2D
Compared2(xin, yin) ==
    The({ Gt(xin[2] - 4 * c[1], yin[2] - 4 * c[2], xin = yin) : c \in {Cell2(xin, yin)} })
\* <<x0 >= y0, y0 >= z0, x0 >= z0>> in noise3D
Compared3(xin, yin, zin) ==
    The({ Geq(xin[2] - 4 * c[1], yin[2] - 4 * c[2], xin = yin)
          \X Geq(yin[2] - 4 * c[2], zin[2] - 4 * c[3], yin = zin)
          \X Geq(xin[2] - 4 * c[1], zin[2] - 4 * c[3], xin = zin) :
          c \in {Cell3(xin, yin, zin)} })

\* this.permMod12[a + this.perm[b]], a and b integers
Corner2(h, n, a, b) ==
    The({ [gi    |-> TableGet(h, h[n].permMod12, Plus(IntNum(a), v)),
           reads |-> << <<"perm", IntNum(b), v>>,
                        <<"permMod12", Plus(IntNum(a), v),
                          TableGet(h, h[n].permMod12, Plus(IntNum(a), v))>> >>] :
          v \in {TableGet(h, h[n].perm, IntNum(b))} })
\* this.permMod12[a + this.perm[b + this.perm[c]]]
Corner3(h, n, a, b, c) ==
    The({ The({ [gi    |-> TableGet(h, h[n].permMod12, Plus(IntNum(a), v)),
                 reads |-> << <<"perm", IntNum(c), w>>,
                              <<"perm", Plus(IntNum(b), w), v>>,
                              <<"permMod12", Plus(IntNum(a), v),
                                TableGet(h, h[n].permMod12, Plus(IntNum(a), v))>> >>] :
                v \in {TableGet(h, h[n].perm, Plus(IntNum(b), w))} }) :
          w \in {TableGet(h, h[n].perm, IntNum(c))} })

\* the value of noise2D at the cell <<ii, jj>> (masked): the gradient indices
\* gi0, gi1, gi2 of the corners; the contributions n0, n1, n2 are
\* floating-point functions of them and of the point
Simplex2(h, n, xin, yin, ii, jj, i1, j1) ==
    The({ R(h, [call  |-> <<"noise2D", xin, yin>>,
                value |-> <<"simplex", <<c0.gi, c1.gi, c2.gi>>, <<i1, j1>> >>,
                reads |-> c0.reads \o c1.reads \o c2.reads]) :
          c0 \in {Corner2(h, n, ii, jj)},
          c1 \in {Corner2(h, n, ii + i1, jj + j1)},
          c2 \in {Corner2(h, n, ii + 1, jj + 1)} })

\* n % m of JavaScript for integers: the sign of n
Rem(n, m) == IF n >= 0 THEN n % m ELSE -((-n) % m)

\* a noise2D(xin, yin) with ii = i % 256 and jj = j % 256
SimplexNoise_noise2DRem(h, n, xin, yin, gt) ==
    The({ Simplex2(h, n, xin, yin, Rem(c[1], 256), Rem(c[2], 256),
                   IF gt THEN 1 ELSE 0, IF gt THEN 0 ELSE 1) :
          c \in {Cell2(xin, yin)} })

\* noise2D(xin, yin); gt is what x0 > y0 gives: i1 = 1, j1 = 0 when it holds
\* and i1 = 0, j1 = 1 otherwise; ii = i & 255, jj = j & 255
SimplexNoise_noise2D(h, n, xin, yin, gt) ==
    The({ Simplex2(h, n, xin, yin, Masked(c[1]), Masked(c[2]),
                   IF gt THEN 1 ELSE 0, IF gt THEN 0 ELSE 1) :
          c \in {Cell2(xin, yin)} })

\* <<i1, j1, k1, i2, j2, k2>> of noise3D for cmp = <<x0 >= y0, y0 >= z0,
\* x0 >= z0>>
Order3(cmp) ==
    IF cmp[1]
    THEN (IF cmp[2] THEN <<1, 0, 0, 1, 1, 0>>
          ELSE IF cmp[3] THEN <<1, 0, 0, 1, 0, 1>>
          ELSE <<0, 0, 1, 1, 0, 1>>)
    ELSE (IF ~cmp[2] THEN <<0, 0, 1, 0, 1, 1>>
          ELSE IF ~cmp[3] THEN <<0, 1, 0, 0, 1, 1>>
          ELSE <<0, 1, 0, 1, 1, 0>>)

\* noise3D(xin, yin, zin); ii = i & 255, jj = j & 255, kk = k & 255
SimplexNoise_noise3D(h, n, xin, yin, zin, cmp) ==
    The({ The({ R(h, [call  |-> <<"noise3D", xin, yin, zin>>,
                      value |-> <<"simplex", <<c0.gi, c1.gi, c2.gi, c3.gi>>, o>>,
                      reads |-> c0.reads \o c1.reads \o c2.reads \o c3.reads]) :
                c0 \in {Corner3(h, n, m[1], m[2], m[3])},
                c1 \in {Corner3(h, n, m[1] + o[1], m[2] + o[2], m[3] + o[3])},
                c2 \in {Corner3(h, n, m[1] + o[4], m[2] + o[5], m[3] + o[6])},
                c3 \in {Corner3(h, n, m[1] + 1, m[2] + 1, m[3] + 1)} }) :
          o \in {Order3(cmp)},
          m \in { <<Masked(c[1]), Masked(c[2]), Masked(c[3])>> :
                  c \in {Cell3(xin, yin, zin)} } })

\* the octaves of SimplexNoise.fbm that are left, of octaves; cmps[i] holds
\* the comparisons of octave i (the first of them is x0 > y0 for noise2D).
\* With y and z null no noise is evaluated
RECURSIVE SimplexNoise_fbmLoop(_, _, _, _, _, _, _, _, _, _)
SimplexNoise_fbmLoop(acc, n, x, y, z, i, octaves, lacunarity, persistence, cmps) ==
    IF i > octaves THEN acc
    ELSE The({ SimplexNoise_fbmLoop(FbmOctave(acc, vs, lacunarity, persistence),
                                    n, x, y, z, i + 1, octaves, lacunarity, persistence, cmps) :
               vs \in { IF z # Null
                        THEN <<SimplexNoise_noise3D(acc.h, n, Times(x, f), Times(y, f),
                                                    Times(z, f), cmps[i])>>
                        ELSE IF y # Null
                        THEN <<SimplexNoise_noise2D(acc.h, n, Times(x, f), Times(y, f),
                                                    cmps[i][1])>>
                        ELSE <<>> :
                        f \in {acc.frequency} } })

\* fbm(x, y = null, z = null, octaves = 4, lacunarity = 2, persistence = 0.5)
SimplexNoise_fbm(h, n, x, y, z, octaves, lacunarity, persistence, cmps) ==
    FbmReturn(SimplexNoise_fbmLoop(FbmStart(h), n, x, y, z, 1, octaves, lacunarity,
                                   persistence, cmps),
              <<"fbm", x, y, z, octaves, lacunarity, persistence, cmps>>)

\* ------------------------------------------------------------------------
\* The state machine: a caller holding facades and snapshots, and the calls
\* it makes on them.
\* ------------------------------------------------------------------------

\* the snapshots the caller keeps at most
MaxSaved == 1

\* the arguments of int(min, max) in the calls made here
IntMin == 1
IntMax == 6

\* one call on the facade at p; op is <<method, arguments...>>
Call(h, p, op) ==
    CASE op[1] = "random"    -> PRNG_random(h, p)
      [] op[1] = "randomInt" -> PRNG_randomInt(h, p)
      [] op[1] = "int"       -> PRNG_int(h, p, Small(IntMin), Small(IntMax))
      [] op[1] = "normal"    -> PRNG_normal(h, p)
      [] op[1] = "reset"     -> PRNG_reset(h, p)
      [] OTHER               -> PRNG_setSeed(h, p, op[2], op[3])

\* the calls of ops made in turn on the facade at p: the heap left and the
\* values returned
RECURSIVE Run(_, _, _, _)
Run(h, p, ops, outs) ==
    IF ops = <<>> THEN [h |-> h, outs |-> outs]
    ELSE The({ Run(r.h, p, Tail(ops), Append(outs, r.ret)) :
               r \in {Call(h, p, Head(ops))} })

\* a snapshot with its array read out of the heap
SnapView(h, snap) ==
    [algorithm      |-> snap.algorithm,
     generatorState |-> [f \in DOMAIN snap.generatorState |->
                            IF f = "s" THEN h[snap.generatorState.s].arr
                            ELSE snap.generatorState[f]],
     normalCache    |-> snap.normalCache]

\* what getState() of the facade at p shows
Snapshot(h, p) == The({ SnapView(r.h, r.ret) : r \in {PRNG_getState(h, p)} })

\* the cells the facade at p reads and writes
Cells(h, p) ==
    {p, h[p].generator}
    \cup (IF "s" \in DOMAIN h[h[p].generator] THEN {h[h[p].generator].s} ELSE {})

VARIABLES
    heap,     \* the JavaScript heap
    before,   \* the heap as it was before the last call
    insts,    \* the facades the caller holds, by address, in order of creation
    saved,    \* the snapshots the caller holds: the value getState() returned,
              \* and (for the properties) the heap and facade it was taken from
    thrown,   \* whether the last call threw
    origin,   \* per facade: how it was made
    born,     \* per facade: its Snapshot right after it was made
    log,      \* per facade: the calls made on it
    out,      \* per facade: what those calls returned
    last,     \* the last call: <<method, arguments...>>, the facade it was made on
              \* (0: the class) and the snapshot it took or was given (0: none)
    budget,   \* calls the caller may still make
    room      \* facades the caller may still create

vars == <<heap, before, insts, saved, thrown, origin, born, log, out, last, budget, room>>

Start(calls, facades) ==
    /\ heap = <<>>
    /\ before = <<>>
    /\ insts = <<>>
    /\ saved = <<>>
    /\ thrown = FALSE
    /\ origin = <<>>
    /\ born = <<>>
    /\ log = <<>>
    /\ out = <<>>
    /\ last = [op |-> <<"none">>, i |-> 0, k |-> 0]
    /\ budget = calls
    /\ room = facades

\* the facades the caller holds at most, and whether it holds an i-th
MaxFacades == 2
Slots == 1..MaxFacades
Held(i) == i <= Len(insts)

\* the caller's books after a call op on insts[i] (i = 0: on the class)
\* returned or threw r
Booked(r, i, op) ==
    /\ heap' = r.h
    /\ before' = heap
    /\ thrown' = r.thrown
    /\ budget' = budget - 1
    /\ log' = [j \in 1..Len(log) |-> IF j = i THEN Append(log[j], op) ELSE log[j]]
    /\ out' = [j \in 1..Len(out) |-> IF j = i THEN Append(out[j], r.ret) ELSE out[j]]

\* a call that made no facade and no snapshot
Did(r, i, op) ==
    /\ Booked(r, i, op)
    /\ last' = [op |-> op, i |-> i, k |-> 0]
    /\ UNCHANGED <<insts, saved, origin, born, room>>

\* a call that returned a new facade, made in the way how, or threw
Made(r, i, op, how) ==
    /\ heap' = r.h
    /\ before' = heap
    /\ thrown' = r.thrown
    /\ last' = [op |-> op, i |-> i, k |-> 0]
    /\ budget' = budget - 1
    /\ saved' = saved
    /\ IF r.thrown
       THEN /\ UNCHANGED <<insts, origin, born, room>>
            /\ log' = [j \in 1..Len(log) |-> IF j = i THEN Append(log[j], op) ELSE log[j]]
            /\ out' = [j \in 1..Len(out) |-> IF j = i THEN Append(out[j], r.ret) ELSE out[j]]
       ELSE /\ insts' = Append(insts, r.ret)
            /\ origin' = Append(origin, how)
            /\ born' = Append(born, Snapshot(r.h, r.ret))
            /\ room' = room - 1
            /\ log' = Append([j \in 1..Len(log) |->
                                IF j = i THEN Append(log[j], op) ELSE log[j]], <<>>)
            /\ out' = Append([j \in 1..Len(out) |->
                                IF j = i THEN Append(out[j], r.ret) ELSE out[j]], <<>>)

\* new PRNG(seed, algorithm)
New(seed, algorithm) ==
    /\ budget > 0 /\ room > 0
    /\ Made(PRNG_new(heap, seed, algorithm), 0, <<"new", seed, algorithm>>,
            [kind |-> "new", seed |-> seed, algorithm |-> algorithm,
             parent |-> 0, label |-> Str(<<>>)])

\* insts[i].clone()
Clone(i) ==
    /\ budget > 0 /\ room > 0 /\ Held(i)
    /\ Made(PRNG_clone(heap, insts[i]), i, <<"clone">>,
            [kind |-> "clone", seed |-> Zero, algorithm |-> heap[heap[insts[i]].generator].name,
             parent |-> i, label |-> Str(<<>>)])

\* insts[i].fork(label)
Fork(i, label) ==
    /\ budget > 0 /\ room > 0 /\ Held(i)
    /\ Made(PRNG_fork(heap, insts[i], label), i, <<"fork", label>>,
            [kind |-> "fork", seed |-> Zero, algorithm |-> heap[heap[insts[i]].generator].name,
             parent |-> i, label |-> label])

\* insts[i].random()
Random(i) ==
    budget > 0 /\ Held(i) /\ Did(PRNG_random(heap, insts[i]), i, <<"random">>)
\* insts[i].randomInt()
RandomInt(i) ==
    budget > 0 /\ Held(i) /\ Did(PRNG_randomInt(heap, insts[i]), i, <<"randomInt">>)
\* insts[i].int(IntMin, IntMax)
IntDraw(i) ==
    budget > 0 /\ Held(i)
    /\ Did(PRNG_int(heap, insts[i], Small(IntMin), Small(IntMax)), i, <<"int">>)
\* insts[i].normal()
Normal(i) ==
    budget > 0 /\ Held(i) /\ Did(PRNG_normal(heap, insts[i]), i, <<"normal">>)
\* insts[i].reset()
Reset(i) ==
    budget > 0 /\ Held(i) /\ Did(PRNG_reset(heap, insts[i]), i, <<"reset">>)
\* insts[i].setSeed(seed, algorithm)
SetSeed(i, seed, algorithm) ==
    budget > 0 /\ Held(i)
    /\ Did(PRNG_setSeed(heap, insts[i], seed, algorithm), i, <<"setSeed", seed, algorithm>>)

\* the caller keeps insts[i].getState()
GetState(i) ==
    /\ budget > 0 /\ Held(i) /\ Len(saved) < MaxSaved
    /\ \E r \in {PRNG_getState(heap, insts[i])} :
          /\ Booked(r, i, <<"getState">>)
          /\ saved' = Append(saved, [snap |-> r.ret, h |-> r.h, p |-> insts[i]])
    /\ last' = [op |-> <<"getState">>, i |-> i, k |-> Len(saved) + 1]
    /\ UNCHANGED <<insts, origin, born, room>>

\* insts[i].setState(payload), payload made of saved[k]
Restored(i, k, payload) ==
    /\ Booked(PRNG_setState(heap, insts[i], payload), i, <<"setState">>)
    /\ last' = [op |-> <<"setState">>, i |-> i, k |-> k]
    /\ UNCHANGED <<insts, saved, origin, born, room>>

\* insts[i].setState(saved[k])
SetState(i, k) ==
    budget > 0 /\ Held(i) /\ k <= Len(saved) /\ Restored(i, k, saved[k].snap)

\* the seeds, algorithm keys and fork labels the caller passes
Seeds  == {Small(42), Str(<<97, 98>>)}    \* 42, 'ab'
Algs   == {Str(<<109, 117, 108, 98, 101, 114, 114, 121, 51, 50>>),        \* 'mulberry32'
           Str(<<120, 111, 115, 104, 105, 114, 111, 49, 50, 56>>),        \* 'xoshiro128'
           Str(<<120, 111, 114, 115, 104, 105, 102, 116, 49, 50, 56>>),    \* 'xorshift128'
           Str(<<112, 99, 103, 51, 50>>),                           \* 'pcg32'
           Str(<<115, 102, 99, 51, 50>>),                          \* 'sfc32'
           Str(<<108, 99, 103>>)}                                   \* 'lcg'
Labels == {Str(<<>>), Str(<<97>>)}           \* '', 'a'
\* the arguments of a later setSeed: setSeed(7) and setSeed('ab', 'PCG')
Reseeds == {<<Small(7), Undefined>>, <<Str(<<97, 98>>), Str(<<80, 67, 71>>)>>}

\* ------------------------------------------------------------------------
\* One facade through its life: draws, reset, reseed, save and restore.
\* ------------------------------------------------------------------------
MaxCalls == 5
Init == Start(MaxCalls, 1)
Next ==
    \/ \E seed \in Seeds, algorithm \in Algs : New(seed, algorithm)
    \/ \E i \in Slots : Random(i)
    \/ \E i \in Slots : Normal(i)
    \/ \E i \in Slots : Reset(i)
    \/ \E i \in Slots, a \in Reseeds : SetSeed(i, a[1], a[2])
    \/ \E i \in Slots : GetState(i)
    \/ \E i \in Slots, k \in 1..MaxSaved : SetState(i, k)
Spec == Init /\ [][Next]_vars

\* ------------------------------------------------------------------------
\* Two facades, the second one constructed, cloned or forked, and the draws
\* made on them.
\* ------------------------------------------------------------------------
MaxCallsInst == 4
InitInst == Start(MaxCallsInst, MaxFacades)
NextInst ==
    \/ \E seed \in Seeds, algorithm \in Algs : New(seed, algorithm)
    \/ \E i \in Slots : Clone(i)
    \/ \E i \in Slots, label \in Labels : Fork(i, label)
    \/ \E i \in Slots : Random(i)
    \/ \E i \in Slots : RandomInt(i)
    \/ \E i \in Slots : IntDraw(i)
    \/ \E i \in Slots : Normal(i)
SpecInst == InitInst /\ [][NextInst]_vars

\* ------------------------------------------------------------------------
\* A facade, the facades cloned and forked from it, and the calls made on
\* either side: draws, reset, reseed, save, restore, fork.
\* ------------------------------------------------------------------------
MaxCallsShare == 4
InitShare == Start(MaxCallsShare, MaxFacades + 1)
NextShare ==
    \/ \E algorithm \in Algs : Len(insts) = 0 /\ New(Small(42), algorithm)
    \/ \E i \in Slots : Clone(i)
    \/ \E i \in Slots, label \in Labels : Fork(i, label)
    \/ \E i \in Slots : Random(i)
    \/ \E i \in Slots : Normal(i)
    \/ \E i \in Slots : Reset(i)
    \/ \E i \in Slots, a \in Reseeds : SetSeed(i, a[1], a[2])
    \/ \E i \in Slots : GetState(i)
    \/ \E i \in Slots, k \in 1..MaxSaved : SetState(i, k)
SpecShare == InitShare /\ [][NextShare]_vars

\* ------------------------------------------------------------------------
\* Algorithm keys: a facade constructed and reseeded under keys of every
\* kind.
\* ------------------------------------------------------------------------

\* the keys passed, each with its lower-cased form written out
KeyCases ==
    {<<Str(<<109, 117, 108, 98, 101, 114, 114, 121, 51, 50>>), Str(<<109, 117, 108, 98, 101, 114, 114, 121, 51, 50>>)>>,    \* 'mulberry32'
     <<Str(<<109, 117, 108, 98, 101, 114, 114, 121>>), Str(<<109, 117, 108, 98, 101, 114, 114, 121>>)>>,    \* 'mulberry'
     <<Str(<<120, 111, 115, 104, 105, 114, 111, 49, 50, 56>>), Str(<<120, 111, 115, 104, 105, 114, 111, 49, 50, 56>>)>>,    \* 'xoshiro128'
     <<Str(<<120, 111, 115, 104, 105, 114, 111, 49, 50, 56, 42, 42>>), Str(<<120, 111, 115, 104, 105, 114, 111, 49, 50, 56, 42, 42>>)>>,    \* 'xoshiro128**'
     <<Str(<<120, 111, 115, 104, 105, 114, 111>>), Str(<<120, 111, 115, 104, 105, 114, 111>>)>>,    \* 'xoshiro'
     <<Str(<<120, 111, 114, 115, 104, 105, 102, 116, 49, 50, 56>>), Str(<<120, 111, 114, 115, 104, 105, 102, 116, 49, 50, 56>>)>>,    \* 'xorshift128'
     <<Str(<<120, 111, 114, 115, 104, 105, 102, 116, 49, 50, 56, 43>>), Str(<<120, 111, 114, 115, 104, 105, 102, 116, 49, 50, 56, 43>>)>>,    \* 'xorshift128+'
     <<Str(<<120, 111, 114, 115, 104, 105, 102, 116>>), Str(<<120, 111, 114, 115, 104, 105, 102, 116>>)>>,    \* 'xorshift'
     <<Str(<<112, 99, 103, 51, 50>>), Str(<<112, 99, 103, 51, 50>>)>>,    \* 'pcg32'
     <<Str(<<112, 99, 103>>), Str(<<112, 99, 103>>)>>,    \* 'pcg'
     <<Str(<<115, 102, 99, 51, 50>>), Str(<<115, 102, 99, 51, 50>>)>>,    \* 'sfc32'
     <<Str(<<115, 102, 99>>), Str(<<115, 102, 99>>)>>,    \* 'sfc'
     <<Str(<<108, 99, 103>>), Str(<<108, 99, 103>>)>>,    \* 'lcg'
     <<Str(<<80, 67, 71, 51, 50>>), Str(<<112, 99, 103, 51, 50>>)>>,    \* 'PCG32'
     <<Str(<<88, 111, 115, 104, 105, 114, 111, 49, 50, 56, 42, 42>>), Str(<<120, 111, 115, 104, 105, 114, 111, 49, 50, 56, 42, 42>>)>>,    \* 'Xoshiro128**'
     <<Str(<<76, 67, 71>>), Str(<<108, 99, 103>>)>>,    \* 'LCG'
     <<Str(<<77, 117, 108, 66, 101, 114, 114, 121>>), Str(<<109, 117, 108, 98, 101, 114, 114, 121>>)>>,    \* 'MulBerry'
     <<Str(<<83, 70, 67>>), Str(<<115, 102, 99>>)>>,    \* 'SFC'
     <<Str(<<109, 116, 49, 57, 57, 51, 55>>), Str(<<109, 116, 49, 57, 57, 51, 55>>)>>,    \* 'mt19937'
     <<Str(<<>>), Str(<<>>)>>,    \* ''
     <<Str(<<120, 111, 115, 104, 105, 114, 111, 50, 53, 54>>), Str(<<120, 111, 115, 104, 105, 114, 111, 50, 53, 54>>)>>,    \* 'xoshiro256'
     <<Str(<<108, 99, 103, 32>>), Str(<<108, 99, 103, 32>>)>>,    \* 'lcg '
     <<Str(<<88, 111, 114, 83, 104, 105, 102, 116, 54, 52>>), Str(<<120, 111, 114, 115, 104, 105, 102, 116, 54, 52>>)>>}    \* 'XorShift64'

\* the accepted keys, each with the name of the generator documented for it
Documented ==
    {<<Str(<<109, 117, 108, 98, 101, 114, 114, 121, 51, 50>>), Name_mulberry32>>,    \* 'mulberry32'
     <<Str(<<109, 117, 108, 98, 101, 114, 114, 121>>), Name_mulberry32>>,    \* 'mulberry'
     <<Str(<<120, 111, 115, 104, 105, 114, 111, 49, 50, 56>>), Name_xoshiro128ss>>,    \* 'xoshiro128'
     <<Str(<<120, 111, 115, 104, 105, 114, 111, 49, 50, 56, 42, 42>>), Name_xoshiro128ss>>,    \* 'xoshiro128**'
     <<Str(<<120, 111, 115, 104, 105, 114, 111>>), Name_xoshiro128ss>>,    \* 'xoshiro'
     <<Str(<<120, 111, 114, 115, 104, 105, 102, 116, 49, 50, 56>>), Name_xorshift128plus>>,    \* 'xorshift128'
     <<Str(<<120, 111, 114, 115, 104, 105, 102, 116, 49, 50, 56, 43>>), Name_xorshift128plus>>,    \* 'xorshift128+'
     <<Str(<<120, 111, 114, 115, 104, 105, 102, 116>>), Name_xorshift128plus>>,    \* 'xorshift'
     <<Str(<<112, 99, 103, 51, 50>>), Name_pcg32>>,    \* 'pcg32'
     <<Str(<<112, 99, 103>>), Name_pcg32>>,    \* 'pcg'
     <<Str(<<115, 102, 99, 51, 50>>), Name_sfc32>>,    \* 'sfc32'
     <<Str(<<115, 102, 99>>), Name_sfc32>>,    \* 'sfc'
     <<Str(<<108, 99, 103>>), Name_lcg>>}    \* 'lcg'

MaxCallsKeys == 3
InitKeys == Start(MaxCallsKeys, 1)
NextKeys ==
    \/ \E kc \in KeyCases : New(Small(42), kc[1])
    \/ \E i \in Slots, kc \in KeyCases : SetSeed(i, Small(7), kc[1])
    \/ \E i \in Slots : Random(i)
SpecKeys == InitKeys /\ [][NextKeys]_vars

\* ------------------------------------------------------------------------
\* Saved-state payloads: a facade restored from snapshots the caller has
\* relabelled or stripped of a field.
\* ------------------------------------------------------------------------

Names == {Name_mulberry32, Name_xoshiro128ss, Name_xorshift128plus,
          Name_pcg32, Name_sfc32, Name_lcg}
PayloadFields == {"algorithm", "generatorState", "normalCache"}

\* insts[i].setState({...saved[k], algorithm}): the generatorState of one
\* algorithm under the name of another
SetStateAs(i, k, algorithm) ==
    /\ budget > 0 /\ Held(i) /\ k <= Len(saved)
    /\ algorithm # saved[k].snap.algorithm
    /\ \E r \in {PRNG_setState(heap, insts[i], [saved[k].snap EXCEPT !.algorithm = algorithm])} :
          Did(r, i, <<"setState", "as", algorithm>>)

\* insts[i].setState(payload), payload being saved[k] without the property f
SetStateWithout(i, k, f) ==
    /\ budget > 0 /\ Held(i) /\ k <= Len(saved)
    /\ \E r \in {PRNG_setState(heap, insts[i],
                               [g \in PayloadFields \ {f} |-> saved[k].snap[g]])} :
          Did(r, i, <<"setState", "without", f>>)

MaxCallsPayload == 4
InitPayload == Start(MaxCallsPayload, 1)
NextPayload ==
    \/ \E algorithm \in Algs : New(Small(42), algorithm)
    \/ \E i \in Slots : Random(i)
    \/ \E i \in Slots : GetState(i)
    \/ \E i \in Slots, k \in 1..MaxSaved : SetState(i, k)
    \/ \E i \in Slots, k \in 1..MaxSaved, algorithm \in Names : SetStateAs(i, k, algorithm)
    \/ \E i \in Slots, k \in 1..MaxSaved, f \in PayloadFields : SetStateWithout(i, k, f)
SpecPayload == InitPayload /\ [][NextPayload]_vars

\* ------------------------------------------------------------------------
\* One facade and its utilities: int, shuffled, sample, uuid, weightedPick,
\* beta. An array the caller passes is allocated by the call; the call's
\* record holds its elements and its address.
\* ------------------------------------------------------------------------

\* the seeds: 0, 42, 'ab'
UtilSeeds == {Zero, Small(42), Str(<<97, 98>>)}
\* the bounds of int: (5, 15), (0.5, 3.5), (-2, 2), (2.25, 3)
IntBounds == {<<Small(5), Small(15)>>,
              <<<<"frac", 0, 32768, 0>>, <<"frac", 3, 32768, 0>>>>,
              <<IntNum(-2), Small(2)>>,
              <<<<"frac", 2, 16384, 0>>, Small(3)>>}
\* the arrays: [], [1], [1, 2, 2], [1, 2, 3, 4]
Arrays == {<<>>, <<Small(1)>>, <<Small(1), Small(2), Small(2)>>,
           <<Small(1), Small(2), Small(3), Small(4)>>}
\* the sizes asked of sample
SampleSizes == {0, 2, 5}
\* items and weights: of equal lengths, and of different ones
Weighted == {<<<<Small(1), Small(2), Small(3)>>, <<Small(1), Small(0), Small(3)>>>>,
             <<<<Small(1)>>, <<Small(0)>>>>,
             <<<<Small(1), Small(2)>>, <<Small(1)>>>>,
             <<<<>>, <<Small(1)>>>>}
\* the parameters of beta: (0, 1), (2, -1), (-1, 0)
BetaParams == {<<Zero, Small(1)>>, <<Small(2), IntNum(-1)>>, <<IntNum(-1), Zero>>}

\* insts[i].int(min, max)
IntBetween(i, min, max) ==
    budget > 0 /\ Held(i)
    /\ Did(PRNG_int(heap, insts[i], min, max), i, <<"int", min, max>>)

\* insts[i].shuffled(array), array a new array of the elements elems
Shuffled(i, elems) ==
    /\ budget > 0 /\ Held(i)
    /\ \E a \in {Alloc(heap, [arr |-> elems])} :
          Did(PRNG_shuffled(a.h, insts[i], a.ret), i, <<"shuffled", elems, a.ret>>)

\* insts[i].sample(array, n), array a new array of the elements elems
Sample(i, elems, n) ==
    /\ budget > 0 /\ Held(i)
    /\ \E a \in {Alloc(heap, [arr |-> elems])} :
          Did(PRNG_sample(a.h, insts[i], a.ret, IntNum(n)), i, <<"sample", elems, a.ret, n>>)

\* insts[i].uuid()
Uuid(i) ==
    budget > 0 /\ Held(i) /\ Did(PRNG_uuid(heap, insts[i]), i, <<"uuid">>)

\* insts[i].weightedPick(items, weights), both new arrays
WeightedPick(i, items, weights) ==
    /\ budget > 0 /\ Held(i)
    /\ \E a \in {Alloc(heap, [arr |-> items])} :
          \E b \in {Alloc(a.h, [arr |-> weights])} :
              Did(PRNG_weightedPick(b.h, insts[i], a.ret, b.ret), i,
                  <<"weightedPick", items, weights>>)

\* insts[i].beta(alpha, beta)
Beta(i, alpha, beta) ==
    budget > 0 /\ Held(i)
    /\ Did(PRNG_beta(heap, insts[i], alpha, beta), i, <<"beta", alpha, beta>>)

MaxCallsUtil == 3
InitUtil == Start(MaxCallsUtil, 1)
NextUtil ==
    \/ \E seed \in UtilSeeds, algorithm \in Algs : New(seed, algorithm)
    \/ \E i \in Slots : Random(i)
    \/ \E i \in Slots : RandomInt(i)
    \/ \E i \in Slots, b \in IntBounds : IntBetween(i, b[1], b[2])
    \/ \E i \in Slots, elems \in Arrays : Shuffled(i, elems)
    \/ \E i \in Slots, elems \in Arrays, n \in SampleSizes : Sample(i, elems, n)
    \/ \E i \in Slots : Uuid(i)
    \/ \E i \in Slots, w \in Weighted : WeightedPick(i, w[1], w[2])
    \/ \E i \in Slots, ab \in BetaParams : Beta(i, ab[1], ab[2])
SpecUtil == InitUtil /\ [][NextUtil]_vars

\* ------------------------------------------------------------------------
\* One facade and its normal(mean, stdDev) calls, with uniform draws between
\* them and no reseed, reset or restore.
\* ------------------------------------------------------------------------

\* the parameters of normal: (0, 1) and (5, 2)
NormalParams == {<<Zero, One>>, <<Small(5), Small(2)>>}

\* insts[i].normal(mean, stdDev)
NormalWith(i, mean, stdDev) ==
    budget > 0 /\ Held(i)
    /\ Did(PRNG_normalWith(heap, insts[i], mean, stdDev), i, <<"normal", mean, stdDev>>)

MaxCallsNormal == 5
InitNormal == Start(MaxCallsNormal, 1)
NextNormal ==
    \/ \E seed \in Seeds, algorithm \in Algs : New(seed, algorithm)
    \/ \E i \in Slots : Random(i)
    \/ \E i \in Slots, ms \in NormalParams : NormalWith(i, ms[1], ms[2])
SpecNormal == InitNormal /\ [][NextNormal]_vars

\* insts[i].shuffle(array), array a new array of the elements elems
Shuffle(i, elems) ==
    /\ budget > 0 /\ Held(i)
    /\ \E a \in {Alloc(heap, [arr |-> elems])} :
          Did(PRNG_shuffle(a.h, insts[i], a.ret), i, <<"shuffle", elems, a.ret>>)

\* ------------------------------------------------------------------------
\* One facade, its draws, and arrays shuffled in place.
\* ------------------------------------------------------------------------
MaxCallsShuffle == 4
InitShuffle == Start(MaxCallsShuffle, 1)
NextShuffle ==
    \/ \E seed \in Seeds, algorithm \in Algs : New(seed, algorithm)
    \/ \E i \in Slots : Random(i)
    \/ \E i \in Slots, elems \in Arrays : Shuffle(i, elems)
SpecShuffle == InitShuffle /\ [][NextShuffle]_vars

\* insts[i].setState({...saved[k], algorithm: 'nope'}): no generator has the
\* name
SetStateUnknown(i, k) ==
    /\ budget > 0 /\ Held(i) /\ k <= Len(saved)
    /\ \E r \in {PRNG_setState(heap, insts[i],
                               [saved[k].snap EXCEPT !.algorithm = Str(<<110, 111, 112, 101>>)])} :
          Did(r, i, <<"setState", "as", Str(<<110, 111, 112, 101>>)>>)

\* ------------------------------------------------------------------------
\* One facade, its draws, a snapshot of it, and restores that fail: from a
\* payload that names no generator, or that lacks a property.
\* ------------------------------------------------------------------------
MaxCallsRestore == 5
InitRestore == Start(MaxCallsRestore, 1)
NextRestore ==
    \/ \E algorithm \in Algs : New(Small(42), algorithm)
    \/ \E i \in Slots : Random(i)
    \/ \E i \in Slots : Normal(i)
    \/ \E i \in Slots : GetState(i)
    \/ \E i \in Slots, k \in 1..MaxSaved : SetStateUnknown(i, k)
    \/ \E i \in Slots, k \in 1..MaxSaved, f \in PayloadFields : SetStateWithout(i, k, f)
SpecRestore == InitRestore /\ [][NextRestore]_vars

\* ------------------------------------------------------------------------
\* One facade, its draws, and weighted picks among items some of which have
\* the weight 0. The seed 634785765 makes an lcg return 0 on its first draw:
\* 1664525 * 634785765 + 1013904223 is a multiple of 2^32.
\* ------------------------------------------------------------------------
PickSeeds == {<<0, 9686, 4069>>, Small(42)}
\* items and weights: ([1, 2], [0, 1]), ([1, 2], [1, 0]), ([1, 2, 3], [1, 0, 1]),
\* ([1, 2, 3], [0, 0, 2])
PickWeighted == {<<<<Small(1), Small(2)>>, <<Small(0), Small(1)>>>>,
                 <<<<Small(1), Small(2)>>, <<Small(1), Small(0)>>>>,
                 <<<<Small(1), Small(2), Small(3)>>, <<Small(1), Small(0), Small(1)>>>>,
                 <<<<Small(1), Small(2), Small(3)>>, <<Small(0), Small(0), Small(2)>>>>}
MaxCallsPick == 3
InitPick == Start(MaxCallsPick, 1)
NextPick ==
    \/ \E seed \in PickSeeds, algorithm \in Algs : New(seed, algorithm)
    \/ \E i \in Slots : Random(i)
    \/ \E i \in Slots, iw \in PickWeighted : WeightedPick(i, iw[1], iw[2])
SpecPick == InitPick /\ [][NextPick]_vars

\* ------------------------------------------------------------------------
\* Noise fields: the caller constructs ValueNoise and SimplexNoise objects
\* (held in insts) and evaluates them. born holds, per object, what
\* getState() of its facade showed and what its tables held right after
\* construction.
\* ------------------------------------------------------------------------

\* the tables of the noise object at n
Tables(h, n) ==
    IF h[n].class = "ValueNoise" THEN <<h[h[n].permutation].arr>>
    ELSE <<h[h[n].perm].arr, h[h[n].permMod12].arr>>

\* a constructor call that returned the noise object r.ret
NoiseMade(r, op, class, seed) ==
    /\ heap' = r.h
    /\ before' = heap
    /\ thrown' = r.thrown
    /\ last' = [op |-> op, i |-> 0, k |-> 0]
    /\ budget' = budget - 1
    /\ room' = room - 1
    /\ saved' = saved
    /\ insts' = Append(insts, r.ret)
    /\ origin' = Append(origin, [kind |-> class, seed |-> seed])
    /\ born' = Append(born, [rng    |-> Snapshot(r.h, r.h[r.ret].rng),
                             tables |-> Tables(r.h, r.ret)])
    /\ log' = Append(log, <<>>)
    /\ out' = Append(out, <<>>)

\* insts[i] is a noise object of the class
IsA(i, class) == Held(i) /\ heap[insts[i]].class = class

\* new ValueNoise(seed)
NewValueNoise(seed) ==
    /\ budget > 0 /\ room > 0
    /\ NoiseMade(ValueNoise_new(heap, seed), <<"new", "ValueNoise", seed>>, "ValueNoise", seed)
\* new SimplexNoise(seed)
NewSimplexNoise(seed) ==
    /\ budget > 0 /\ room > 0
    /\ NoiseMade(SimplexNoise_new(heap, seed), <<"new", "SimplexNoise", seed>>,
                 "SimplexNoise", seed)

\* insts[i].noise1D(x), noise2D(x, y), noise3D(x, y, z) of a ValueNoise
ValueNoise1D(i, x) ==
    /\ budget > 0 /\ IsA(i, "ValueNoise")
    /\ Did(ValueNoise_noise1D(heap, insts[i], x), i, <<"noise1D", x>>)
ValueNoise2D(i, pt) ==
    /\ budget > 0 /\ IsA(i, "ValueNoise")
    /\ Did(ValueNoise_noise2D(heap, insts[i], pt[1], pt[2]), i, <<"noise2D", pt>>)
ValueNoise3D(i, pt) ==
    /\ budget > 0 /\ IsA(i, "ValueNoise")
    /\ Did(ValueNoise_noise3D(heap, insts[i], pt[1], pt[2], pt[3]), i, <<"noise3D", pt>>)
\* insts[i].fbm(x, y, z, octaves, lacunarity, persistence) of a ValueNoise
ValueFbm(i, a) ==
    /\ budget > 0 /\ IsA(i, "ValueNoise")
    /\ Did(ValueNoise_fbm(heap, insts[i], a[1], a[2], a[3], a[4], a[5], a[6]), i,
           <<"fbm", a, <<>> >>)

\* insts[i].noise2D(x, y) of a SimplexNoise, x0 > y0 giving gt
Simplex2D(i, pt, gt) ==
    /\ budget > 0 /\ IsA(i, "SimplexNoise")
    /\ gt \in Compared2(pt[1], pt[2])
    /\ Did(SimplexNoise_noise2D(heap, insts[i], pt[1], pt[2], gt), i, <<"noise2D", pt, gt>>)
\* insts[i].noise3D(x, y, z) of a SimplexNoise, the comparisons giving cmp
Simplex3D(i, pt, cmp) ==
    /\ budget > 0 /\ IsA(i, "SimplexNoise")
    /\ cmp \in Compared3(pt[1], pt[2], pt[3])
    /\ Did(SimplexNoise_noise3D(heap, insts[i], pt[1], pt[2], pt[3], cmp), i,
           <<"noise3D", pt, cmp>>)

\* lacunarity ^ k
RECURSIVE Power(_, _)
Power(b, k) == IF k = 0 THEN 1 ELSE b * Power(b, k - 1)
\* the octaves a call of fbm has at most here
MaxOctaves == 3
\* cmps are comparisons the octaves of fbm(a) of a SimplexNoise can make:
\* cmps[k] for the point of octave k, and all TRUE where none is made
FbmCompared(a, cmps) ==
    \A k \in 1..MaxOctaves :
        IF k <= a[4] /\ a[3] # Null
        THEN cmps[k] \in Compared3(Times(a[1], Power(a[5], k - 1)),
                                   Times(a[2], Power(a[5], k - 1)),
                                   Times(a[3], Power(a[5], k - 1)))
        ELSE IF k <= a[4] /\ a[2] # Null
        THEN /\ cmps[k][1] \in Compared2(Times(a[1], Power(a[5], k - 1)),
                                         Times(a[2], Power(a[5], k - 1)))
             /\ cmps[k][2] /\ cmps[k][3]
        ELSE cmps[k] = <<TRUE, TRUE, TRUE>>
\* insts[i].fbm(x, y, z, octaves, lacunarity, persistence) of a SimplexNoise
SimplexFbm(i, a, cmps) ==
    /\ budget > 0 /\ IsA(i, "SimplexNoise")
    /\ FbmCompared(a, cmps)
    /\ Did(SimplexNoise_fbm(heap, insts[i], a[1], a[2], a[3], a[4], a[5], a[6], cmps), i,
           <<"fbm", a, cmps>>)

\* the points evaluated, in quarters: with negative coordinates, and with
\* coordinates beyond 255
Points1 == {Q(0), Q(-5), Q(1023), Q(1030)}
Points2 == {<<Q(0), Q(0)>>, <<Q(5), Q(-3)>>, <<Q(-7), Q(-6)>>, <<Q(-1), Q(1)>>,
            <<Q(1030), Q(-1027)>>}
Points3 == {<<Q(0), Q(0), Q(0)>>, <<Q(1), Q(2), Q(3)>>, <<Q(3), Q(2), Q(1)>>,
            <<Q(-5), Q(2), Q(-10)>>, <<Q(1029), Q(-1030), Q(7)>>}
\* the arguments of fbm: x alone, x and y, all three, x and z
FbmArgs == {<<Q(3), Null, Null, 2, 2, <<1, 2>> >>,
            <<Q(3), Q(5), Null, 3, 2, <<1, 2>> >>,
            <<Q(1), Q(2), Q(3), 2, 3, <<2, 1>> >>,
            <<Q(-5), Null, Q(2), 1, 2, <<1, 2>> >>}

MaxCallsNoise == 3
InitNoise == Start(MaxCallsNoise, MaxFacades)
NextNoise ==
    \/ \E seed \in Seeds : NewValueNoise(seed)
    \/ \E seed \in Seeds : NewSimplexNoise(seed)
    \/ \E i \in Slots, x \in Points1 : ValueNoise1D(i, x)
    \/ \E i \in Slots, pt \in Points2 : ValueNoise2D(i, pt)
    \/ \E i \in Slots, pt \in Points3 : ValueNoise3D(i, pt)
    \/ \E i \in Slots, a \in FbmArgs : ValueFbm(i, a)
    \/ \E i \in Slots, pt \in Points2, gt \in BOOLEAN : Simplex2D(i, pt, gt)
    \/ \E i \in Slots, pt \in Points3, cmp \in BOOLEAN \X BOOLEAN \X BOOLEAN :
          Simplex3D(i, pt, cmp)
    \/ \E i \in Slots, a \in FbmArgs,
          cmps \in [1..MaxOctaves -> BOOLEAN \X BOOLEAN \X BOOLEAN] : SimplexFbm(i, a, cmps)
SpecNoise == InitNoise /\ [][NextNoise]_vars

\* ------------------------------------------------------------------------
\* Properties
\* ------------------------------------------------------------------------

\* the draws a continuation is made of, and the continuations tried from a
\* state: every sequence of at most MaxRun of them
MaxRun == 2
DrawOps == {<<"random">>, <<"randomInt">>, <<"int">>, <<"normal">>}
Seqs(S, n) == UNION {[1..k -> S] : k \in 0..n}
\* what the calls of ops on the facade at p return, and what getState() shows
\* after them
After(h, p, ops) == The({ <<r.outs, Snapshot(r.h, p)>> : r \in {Run(h, p, ops, <<>>)} })

\* two facades the caller constructed from the same seed and algorithm and
\* made the same calls on
Twins(i, j) ==
    /\ i < j
    /\ origin[i].kind = "new" /\ origin[j].kind = "new"
    /\ origin[i] = origin[j]
    /\ log[i] = log[j]

\* C1: two facades constructed independently from the same seed and the same
\* algorithm, on which the same sequence of draws has been made, have returned
\* the same value at every step, show the same getState(), and return the same
\* values in every continuation.
C1_Determinism ==
    \A i \in 1..Len(insts), j \in 1..Len(insts) :
        Twins(i, j) =>
            /\ out[i] = out[j]
            /\ \A c \in Seqs(DrawOps, MaxRun) :
                  After(heap, insts[i], c) = After(heap, insts[j], c)

\* C1: twins on which a draw has been made
C1_Witness ==
    \E i \in 1..Len(insts), j \in 1..Len(insts) :
        Twins(i, j) /\ Len(log[i]) > 0 /\ log[i][1] \in DrawOps

\* the last call was insts[last.i].clone() / .fork(label); the facade it
\* returned is the newest one
Cloned == last.op[1] = "clone" /\ ~thrown
Forked == last.op[1] = "fork" /\ ~thrown
Parent == insts[last.i]
Child  == insts[Len(insts)]

\* C5: right after c = p.clone(), c.getState() equals p.getState() field for
\* field, and the same sequence of draws, normal() and reset() calls made on c
\* and on p returns the same values and leaves the same getState().
C5_Clone ==
    Cloned =>
        /\ Snapshot(heap, Child) = Snapshot(heap, Parent)
        /\ \A ops \in Seqs(DrawOps \cup {<<"reset">>}, MaxRun) :
              After(heap, Child, ops) = After(heap, Parent, ops)

\* C5: a clone of a facade that has drawn and holds a spare normal
C5_Witness == Cloned /\ heap[Parent].hasSpareNormal /\ Len(log[last.i]) > 1

\* C7: the parent's getState() after fork(label) is its getState() after one
\* randomInt() made in the state before the fork: the same state words, the
\* same retained seed, the NormalCache as it was.
C7_ForkAdvance ==
    Forked => \A r \in {PRNG_randomInt(before, Parent)} :
                 Snapshot(heap, Parent) = Snapshot(r.h, Parent)

\* C7: a fork of a facade that holds a spare normal
C7_Witness == Forked /\ heap[Parent].hasSpareNormal /\ before[Parent].hasSpareNormal

\* C8: the child of p.fork(label) is in the state of a fresh
\* PRNG(name + '_' + d + '_' + label, name), name being p's algorithm name and
\* d the integer p.randomInt() would have returned in the state before the
\* fork; its NormalCache is empty, and it draws what the fresh facade draws.
C8_ForkChild ==
    Forked =>
        \A name \in {before[before[Parent].generator].name},
           d \in {PRNG_randomInt(before, Parent).ret} :
           \A fresh \in {PRNG_new(<<>>, Str(name[2] \o <<95>> \o JsString(d)[2] \o <<95>>
                                            \o last.op[2][2]), name)} :
              /\ ~fresh.thrown
              /\ heap[Child].spareNormal = Null /\ ~heap[Child].hasSpareNormal
              /\ \A ops \in Seqs({<<"randomInt">>, <<"normal">>}, MaxRun) :
                    After(heap, Child, ops) = After(fresh.h, fresh.ret, ops)

\* C8: a fork with a label that is not empty, of a facade that has drawn
C8_Witness == Forked /\ last.op[2] # Str(<<>>) /\ Len(log[last.i]) > 1

\* the last call was insts[last.i].setState(saved[last.k]) / .reset()
WasRestored == last.op[1] = "setState" /\ ~thrown
WasReset == last.op[1] = "reset" /\ ~thrown
Target   == insts[last.i]
\* the calls made on facade i that are named in names
Named(i, names) == {k \in 1..Len(log[i]) : log[i][k][1] \in names}
\* the last of them
LastNamed(i, names) == CHOOSE k \in Named(i, names) : \A m \in Named(i, names) : m <= k

\* C2: after snap = getState() in a state S, any further calls, and then
\* setState(snap), the next draws (any mix of random, randomInt and normal)
\* return what the same draws return when made in S.
C2_RoundTrip ==
    WasRestored =>
        \A ops \in Seqs({<<"random">>, <<"randomInt">>, <<"normal">>}, MaxRun) :
            Run(heap, Target, ops, <<>>).outs
                = Run(saved[last.k].h, saved[last.k].p, ops, <<>>).outs

\* C2: a snapshot holding a spare normal, restored after a call that came
\* between
C2_Witness ==
    /\ WasRestored
    /\ saved[last.k].snap.normalCache.hasSpare
    /\ log[last.i][Len(log[last.i]) - 1][1] # "getState"

\* C3: reset() after draws only (normal() among them), on a facade as it was
\* constructed, leaves the state the facade had right after construction: the
\* same getState(), an empty NormalCache, and the draws a fresh construction
\* from the same seed and algorithm makes.
C3_Reset ==
    (WasReset /\ Named(last.i, {"setSeed", "setState"}) = {}) =>
        /\ Snapshot(heap, Target) = born[last.i]
        /\ heap[Target].spareNormal = Null /\ ~heap[Target].hasSpareNormal
        /\ \A fresh \in {PRNG_new(<<>>, origin[last.i].seed, origin[last.i].algorithm)} :
              \A ops \in Seqs(DrawOps, MaxRun) :
                 After(heap, Target, ops) = After(fresh.h, fresh.ret, ops)

\* C3: a reset() of a facade that held a spare normal
C3_Witness ==
    /\ WasReset /\ Named(last.i, {"setSeed", "setState"}) = {}
    /\ before[Target].hasSpareNormal

\* reset() came after a setSeed(s1, ...) with s1 other than the seed of the
\* construction, and no setState after that
ResetAfterReseed ==
    /\ WasReset
    /\ Named(last.i, {"setSeed"}) # {}
    /\ Named(last.i, {"setState"}) = {}
    /\ log[last.i][LastNamed(last.i, {"setSeed"})][2] # origin[last.i].seed

\* C4, as stated: reset() after a reseed restores the state the facade had
\* right after its construction from the original seed.
C4_ResetDiscardsReseed ==
    ResetAfterReseed => Snapshot(heap, Target) = born[last.i]

\* C4, amended: reset() after setSeed(s1) or setSeed(s1, a1) restores the state
\* of a fresh PRNG(s1, a), a being the algorithm the setSeed left active: the
\* same getState() and the same draws.
C4_ResetKeepsReseed ==
    ResetAfterReseed =>
        \A fresh \in {PRNG_new(<<>>, log[last.i][LastNamed(last.i, {"setSeed"})][2],
                               heap[heap[Target].generator].name)} :
            \A ops \in Seqs({<<"random">>, <<"normal">>}, MaxRun) :
                After(heap, Target, ops) = After(fresh.h, fresh.ret, ops)

\* C4: a reset() after a reseed and a draw
C4_Witness == ResetAfterReseed /\ before # heap

\* C6: a call on one facade leaves getState() of every other facade as it
\* was, whichever of them was cloned or forked from the other, and no two
\* facades have a cell of the heap in common.
C6_Independence ==
    /\ \A j \in 1..Len(insts) :
          (j # last.i /\ insts[j] <= Len(before)) =>
              Snapshot(heap, insts[j]) = Snapshot(before, insts[j])
    /\ \A i \in 1..Len(insts), j \in 1..Len(insts) :
          i # j => Cells(heap, insts[i]) \cap Cells(heap, insts[j]) = {}

\* C6: a clone or a child has been given a state saved from its source
C6_Witness ==
    /\ WasRestored /\ last.i = 2
    /\ origin[2].kind \in {"clone", "fork"} /\ saved[last.k].p = insts[1]

\* the last call was new PRNG(seed, key) or setSeed(seed, key); its key,
\* lower-cased
Keyed == last.op[1] \in {"new", "setSeed"}
LoweredKey == (CHOOSE kc \in KeyCases : kc[1] = last.op[3])[2]

\* C9: new PRNG(seed, key) and setSeed(seed, key) throw exactly when the
\* lower-cased key is none of the accepted keys, and under an accepted key the
\* facade holds the generator documented for it.
C9_Keys ==
    Keyed =>
        /\ thrown <=> (\A d \in Documented : d[1] # LoweredKey)
        /\ \A d \in Documented :
              (d[1] = LoweredKey) => heap[heap[insts[1]].generator].name = d[2]

\* C9: setSeed was given an unknown key and threw, on a facade made under an
\* accepted key written in capitals
C9_Witness ==
    /\ Keyed /\ last.op[1] = "setSeed" /\ thrown
    /\ origin[1].algorithm # (CHOOSE kc \in KeyCases : kc[1] = origin[1].algorithm)[2]

\* the last call was setState with a payload that is no snapshot: relabelled,
\* or short of a field
Malformed == last.op[1] = "setState" /\ Len(last.op) > 1

\* C10: setState fails on a payload whose generatorState is not of the
\* algorithm it names, or that lacks a field.
C10_Rejects == Malformed => thrown

\* the draws made after a restore to compare two restores by
AfterRestore == <<<<"normal">>, <<"randomInt">>, <<"normal">>>>
\* setState(snap) on the facade at p and then the draws of AfterRestore: the
\* heap left and the values returned
RestoreAndDraw(h, p, snap) ==
    The({ Run(r.h, p, AfterRestore, <<>>) : r \in {PRNG_setState(h, p, snap)} })

\* C11: a snapshot getState() returned reads as it did when it was returned,
\* whatever has been called since; and restoring it into any facade, drawing,
\* and restoring it again into any facade gives the same draws both times.
C11_NoAlias ==
    \A k \in 1..Len(saved) :
        /\ SnapView(heap, saved[k].snap) = SnapView(saved[k].h, saved[k].snap)
        /\ \A i \in 1..Len(insts) :
              \A first \in {RestoreAndDraw(heap, insts[i], saved[k].snap)} :
                  /\ SnapView(first.h, saved[k].snap) = SnapView(saved[k].h, saved[k].snap)
                  /\ \A j \in 1..Len(insts) :
                        RestoreAndDraw(first.h, insts[j], saved[k].snap).outs = first.outs

\* C11: the facade a snapshot was taken from has been restored from it and
\* has drawn since
C11_Witness ==
    /\ Len(saved) = 1
    /\ last.op[1] \in {"random", "normal"} /\ Target = saved[1].p
    /\ Named(last.i, {"setState"}) # {}

\* C12: after target.setState(s), s a snapshot any facade returned,
\* target.getState() shows s field for field, whatever algorithm and state
\* the target had, and a spare normal held in s is what the target's next
\* normal() returns.
C12_RestoresAll ==
    WasRestored =>
        /\ Snapshot(heap, Target) = SnapView(saved[last.k].h, saved[last.k].snap)
        /\ saved[last.k].snap.normalCache.hasSpare =>
              PRNG_normal(heap, Target).ret = saved[last.k].snap.normalCache.spare

\* C12: a snapshot holding a spare normal, restored into a facade that had by
\* then been reseeded under another algorithm
C12_Witness ==
    /\ WasRestored
    /\ saved[last.k].snap.normalCache.hasSpare
    /\ before[before[Target].generator].name # saved[last.k].snap.algorithm

\* the seed the facade at p retains: its generator's originalSeed, or, in
\* Mulberry32 and LCG, the number the seed was converted to
RetainedSeed(h, p) ==
    IF "originalSeed" \in DOMAIN h[h[p].generator]
    THEN h[h[p].generator].originalSeed
    ELSE h[h[p].generator].seed

\* the last call was insts[last.i].setSeed(last.op[2], last.op[3])
WasReseeded == last.op[1] = "setSeed" /\ ~thrown
\* the algorithm key that call asked for: the one given, or the name of the
\* generator the facade had
AskedKey == IF IsUndefined(last.op[3])
            THEN before[before[Target].generator].name ELSE last.op[3]

\* C19: every facade's generator name is an accepted key; setSeed(s) without
\* an algorithm keeps the generator's name; and after setSeed(s, a) the facade
\* is as new PRNG(s, a) is: the same getState(), the seed s retained, an empty
\* NormalCache, the same draws.
C19_SetSeed ==
    /\ \A i \in 1..Len(insts) :
          \E d \in Documented : d[1] = heap[heap[insts[i]].generator].name
    /\ WasReseeded =>
          /\ IsUndefined(last.op[3]) =>
                heap[heap[Target].generator].name = before[before[Target].generator].name
          /\ RetainedSeed(heap, Target) \in {last.op[2], NumSeed(last.op[2])}
          /\ heap[Target].spareNormal = Null /\ ~heap[Target].hasSpareNormal
          /\ \A fresh \in {PRNG_new(<<>>, last.op[2], AskedKey)} :
                /\ ~fresh.thrown
                /\ \A ops \in {<<>>, <<<<"normal">>, <<"random">>>>} :
                      After(heap, Target, ops) = After(fresh.h, fresh.ret, ops)

\* C19: setSeed(s) without an algorithm, on a facade that held a spare normal
\* and whose generator is not the default one
C19_Witness ==
    /\ WasReseeded /\ IsUndefined(last.op[3])
    /\ before[Target].hasSpareNormal
    /\ heap[heap[Target].generator].name # Name_xoshiro128ss

\* the last call was made on a facade and was neither its construction nor a
\* setSeed
NotSeeding == last.i > 0 /\ last.op[1] \notin {"new", "setSeed"}

\* C20, as stated: no call other than setSeed changes the seed retained by
\* the facade it is made on.
C20_SeedImmutable ==
    NotSeeding => RetainedSeed(heap, Target) = RetainedSeed(before, Target)

\* C20: draws, getState, reset, clone and fork leave the seed retained by the
\* facade they are called on as it was; setState(s) leaves the facade with
\* the seed retained in s, which is the seed of the facade s was taken from
\* at the time.
C20_SeedKept ==
    NotSeeding =>
        IF WasRestored
        THEN RetainedSeed(heap, Target) = RetainedSeed(saved[last.k].h, saved[last.k].p)
        ELSE RetainedSeed(heap, Target) = RetainedSeed(before, Target)

\* C20: a snapshot restored into a facade that has been reseeded since the
\* snapshot was taken
C20_Witness ==
    /\ WasRestored
    /\ RetainedSeed(before, Target) # RetainedSeed(saved[last.k].h, saved[last.k].p)

\* what the last call returned
LastRet == out[last.i][Len(out[last.i])]
\* the last call was the utility named, with its arguments on record
Util(name) == last.i > 0 /\ last.op[1] = name /\ Len(last.op) > 1

\* C13: int(min, max) with ceil(min) <= floor(max) returns an integer v with
\* ceil(min) <= v <= floor(max).
C13_IntRange ==
    Util("int") =>
        /\ ~thrown /\ IsNum(LastRet)
        /\ ~Less(LastRet, MathCeil(last.op[2]))
        /\ ~Less(MathFloor(last.op[3]), LastRet)

\* C13: int(0.5, 3.5) has returned 1, the least integer within the bounds
C13_Witness ==
    /\ Util("int") /\ Len(last.op[2]) = 4 /\ Len(last.op[3]) = 4
    /\ LastRet = Small(1)

\* C14: randomInt() returns an integer r with 0 <= r < 2^32, and random() a
\* value v = n / 2^32 with 0 <= n < 2^32, so 0 <= v < 1.
C14_OutputRange ==
    /\ (last.op[1] = "randomInt") =>
          /\ IsNum(LastRet) /\ LastRet[1] = 0
          /\ LastRet[2] \in 0..(B16 - 1) /\ LastRet[3] \in 0..(B16 - 1)
    /\ (last.op[1] = "random") =>
          /\ Len(LastRet) = 4 /\ LastRet[1] = "frac" /\ LastRet[2] = 0
          /\ LastRet[3] \in 0..(B16 - 1) /\ LastRet[4] \in 0..(B16 - 1)

\* C14: randomInt() has returned a value of 2^31 or more, after an earlier
\* draw
C14_Witness ==
    /\ last.op[1] = "randomInt" /\ Len(log[last.i]) > 1
    /\ LastRet[2] >= 32768

\* the indices of the array a that hold v
Holding(a, v) == {k \in 1..Len(a) : a[k] = v}

\* C15: shuffled(arr) leaves arr as it was, element for element, and returns
\* another array that holds every value as many times as arr does.
C15_Shuffled ==
    Util("shuffled") =>
        /\ ~thrown
        /\ heap[last.op[3]].arr = last.op[2]
        /\ LastRet # last.op[3]
        /\ Len(heap[LastRet].arr) = Len(last.op[2])
        /\ \A k \in 1..Len(last.op[2]) :
              Cardinality(Holding(heap[LastRet].arr, last.op[2][k]))
                  = Cardinality(Holding(last.op[2], last.op[2][k]))

\* C15: shuffled([1, 2, 3, 4]) has returned the elements in another order
C15_Witness ==
    /\ Util("shuffled") /\ Len(last.op[2]) = 4
    /\ heap[LastRet].arr # last.op[2]

\* C16: sample(arr, n) returns min(n, arr.length) elements, taken from
\* pairwise distinct indices of arr, leaves arr as it was, and does not throw
\* when n exceeds arr.length.
C16_Sample ==
    Util("sample") =>
        /\ ~thrown
        /\ heap[last.op[3]].arr = last.op[2]
        /\ Len(heap[LastRet].arr)
              = (IF last.op[4] < Len(last.op[2]) THEN last.op[4] ELSE Len(last.op[2]))
        /\ \E f \in [1..Len(heap[LastRet].arr) -> 1..Len(last.op[2])] :
              /\ \A a \in DOMAIN f, b \in DOMAIN f : a # b => f[a] # f[b]
              /\ \A a \in DOMAIN f : heap[LastRet].arr[a] = last.op[2][f[a]]

\* C16: sample([1, 2, 2], 5), more than the array holds, has returned three
\* elements
C16_Witness ==
    /\ Util("sample") /\ last.op[4] > Len(last.op[2]) /\ Len(last.op[2]) = 3
    /\ Len(heap[LastRet].arr) = 3

\* the codes of '8', '9', 'a', 'b' and of the lowercase hex digits
VariantChars == {56, 57, 97, 98}
HexChars == (48..57) \cup (97..102)

\* C17: uuid() returns a string of 36 characters, '-' at positions 8, 13, 18
\* and 23 (code 45), '4' at 14 (code 52), one of 8, 9, a, b at 19, and
\* lowercase hex digits everywhere else (positions from 0).
C17_Uuid ==
    (last.op[1] = "uuid") =>
        /\ ~thrown /\ IsStr(LastRet) /\ Len(LastRet[2]) = 36
        /\ \A i \in 0..35 :
              LastRet[2][i + 1] \in
                  (IF i \in {8, 13, 18, 23} THEN {45}
                   ELSE IF i = 14 THEN {52}
                   ELSE IF i = 19 THEN VariantChars
                   ELSE HexChars)

\* C17: a second uuid() of a facade, with 'b' at position 19
C17_Witness ==
    /\ last.op[1] = "uuid" /\ Named(last.i, {"uuid"}) # {Len(log[last.i])}
    /\ LastRet[2][20] = 98

\* the last call was given a configuration it rejects: items and weights of
\* different lengths, or a beta parameter that is not positive
Misconfigured ==
    \/ Util("weightedPick") /\ Len(last.op[2]) # Len(last.op[3])
    \/ Util("beta") /\ (LeqZero(last.op[2]) \/ LeqZero(last.op[3]))

\* C18: weightedPick with items and weights of different lengths, and beta
\* with a parameter that is not positive, throw and leave getState() as it
\* was before the call.
C18_ConfigErrors ==
    Misconfigured =>
        /\ thrown
        /\ Snapshot(heap, Target) = Snapshot(before, Target)

\* C18: a weightedPick with one weight for two items, after a beta with a
\* parameter that is not positive
C18_Witness ==
    /\ Misconfigured /\ last.op[1] = "weightedPick" /\ Len(last.op[2]) = 2
    /\ Named(last.i, {"beta"}) # {}

\* the most pairs of uniform draws a normal() is followed through
MaxPairs == 32
\* k random() calls
Randoms(k) == [n \in 1..k |-> <<"random">>]
\* u * u + v * v for the pair of draws (x, y), on the scale of 2^62
PairNorm(x, y) == DblAdd(Square(Centre(x)), Square(Centre(y)))
\* 0 < u * u + v * v < 1
Accepted(x, y) == PairNorm(x, y) # <<0>> /\ BigBitLen(PairNorm(x, y)) < 63
\* uniform draws made two at a time on the facade at p, at most left pairs of
\* them, up to the first pair accepted: the heap left and the pair (<<>> when
\* none of the pairs was accepted)
RECURSIVE FirstAccepted(_, _, _)
FirstAccepted(h, p, left) ==
    The({ IF Accepted(d.outs[1], d.outs[2]) THEN [h |-> d.h, pair |-> d.outs]
          ELSE IF left <= 1 THEN [h |-> d.h, pair |-> <<>>]
          ELSE FirstAccepted(d.h, p, left - 1) :
          d \in {Run(h, p, Randoms(2), <<>>)} })
\* the last call was normal(mean, stdDev)
WasNormal == last.i > 0 /\ last.op[1] = "normal" /\ Len(last.op) = 3

\* C21: with the cache empty, normal(mean, stdDev) makes uniform draws two at
\* a time, rejects every pair until one has 0 < u*u + v*v < 1, returns the
\* value built from its u and caches the one built from its v with the flag
\* set; with the flag set it makes no draw, returns spare * stdDev + mean for
\* the parameters of this call and clears the flag. So the flag is set
\* exactly after an odd number of normal() calls.
C21_NormalCache ==
    /\ \A i \in 1..Len(insts) :
          heap[insts[i]].hasSpareNormal <=> Cardinality(Named(i, {"normal"})) % 2 = 1
    /\ WasNormal =>
          IF before[Target].hasSpareNormal
          THEN /\ heap[heap[Target].generator] = before[before[Target].generator]
               /\ Snapshot(heap, Target).generatorState
                     = Snapshot(before, Target).generatorState
               /\ LastRet = Affine(before[Target].spareNormal, last.op[3], last.op[2])
               /\ ~heap[Target].hasSpareNormal
          ELSE \A d \in {FirstAccepted(before, Target, MaxPairs)} :
                  /\ d.pair # <<>>
                  /\ Snapshot(heap, Target).generatorState
                        = Snapshot(d.h, Target).generatorState
                  /\ LastRet = Affine(<<"bm", "u", Centre(d.pair[1]), Centre(d.pair[2]),
                                        PairNorm(d.pair[1], d.pair[2])>>,
                                      last.op[3], last.op[2])
                  /\ heap[Target].spareNormal
                        = <<"bm", "v", Centre(d.pair[1]), Centre(d.pair[2]),
                            PairNorm(d.pair[1], d.pair[2])>>
                  /\ heap[Target].hasSpareNormal

\* C21: normal(5, 2) has returned the spare that a normal(0, 1) cached
C21_Witness ==
    /\ WasNormal /\ before[Target].hasSpareNormal
    /\ last.op[3] = Small(2)
    /\ log[last.i][LastNamed(last.i, {"normal"}) - 1] = <<"normal", Zero, One>>

\* the numeric state words a snapshot reports: state; s[0..3]; stateHi,
\* stateLo, incHi, incLo; a, b, c, counter
StateWords(snap) ==
    {snap.generatorState[f] :
        f \in DOMAIN snap.generatorState
              \cap {"state", "stateHi", "stateLo", "incHi", "incLo", "a", "b", "c", "counter"}}
    \cup (IF "s" \in DOMAIN snap.generatorState
          THEN {snap.generatorState.s[k] : k \in 1..Len(snap.generatorState.s)}
          ELSE {})

\* C22: every numeric state word getState() reports is an integer w with
\* 0 <= w < 2^32.
C22_WordsUnsigned ==
    \A i \in 1..Len(insts) :
        \A w \in StateWords(Snapshot(heap, insts[i])) : IsNum(w) /\ w[1] = 0

\* the calls that make one generator step each
StepOps == {<<"random">>, <<"randomInt">>}
\* the generator of facade i would step the same way by next() and nextInt()
SameStep(h, g) ==
    \A a \in {Gen_next(h, g)}, b \in {Gen_nextInt(h, g)} :
        /\ ~a.thrown /\ ~b.thrown
        /\ a.h = b.h
        /\ a.ret = <<"frac">> \o b.ret

\* C23: in every reachable state next() returns nextInt()'s value over 2^32
\* and leaves the generator where nextInt() leaves it; the random() and
\* randomInt() calls made agree with that, and two facades constructed alike
\* that made the same number of such calls, in any mix, hold the same
\* generator state.
C23_SameStep ==
    /\ \A i \in 1..Len(insts) : SameStep(heap, heap[insts[i]].generator)
    /\ (last.i > 0 /\ last.op \in StepOps) =>
          \A b \in {Gen_nextInt(before, before[Target].generator)} :
              /\ Snapshot(heap, Target) = Snapshot(b.h, Target)
              /\ LastRet = (IF last.op = <<"random">> THEN <<"frac">> \o b.ret ELSE b.ret)
    /\ \A i, j \in 1..Len(insts) :
          (/\ i < j
           /\ origin[i].kind = "new" /\ origin[i] = origin[j]
           /\ Len(log[i]) = Len(log[j])
           /\ \A k \in 1..Len(log[i]) : log[i][k] \in StepOps /\ log[j][k] \in StepOps)
          => Snapshot(heap, insts[i]).generatorState = Snapshot(heap, insts[j]).generatorState

\* two facades constructed alike, one drew by random() and the other by
\* randomInt()
C23_Witness ==
    /\ Len(insts) = 2
    /\ origin[1].kind = "new" /\ origin[1] = origin[2]
    /\ log[1] = <<<<"random">>>> /\ log[2] = <<<<"randomInt">>>>

\* the array Fisher-Yates leaves of arr (0-based index i, going down to 1)
\* when the draws left are draws: at i the index is j = floor(draw * (i + 1))
RECURSIVE FisherYates(_, _, _)
FisherYates(arr, draws, i) ==
    IF i <= 0 THEN arr
    ELSE LET d == Head(draws)
             j == FloorScale(<<d[2], d[3], d[4]>>, IntNum(i + 1), Zero)[3]
         IN  FisherYates([k \in 1..Len(arr) |->
                              IF k = i + 1 THEN arr[j + 1]
                              ELSE IF k = j + 1 THEN arr[i + 1] ELSE arr[k]],
                         Tail(draws), i - 1)
\* the indices drawn: for i = Len(draws) down to 1, in [0, i]
DrawnInRange(draws) ==
    \A n \in 1..Len(draws) :
        \A d \in {draws[n]} :
            /\ Len(d) = 4
            /\ FloorScale(<<d[2], d[3], d[4]>>, IntNum(Len(draws) - n + 2), Zero)[1] = 0
            /\ FloorScale(<<d[2], d[3], d[4]>>, IntNum(Len(draws) - n + 2), Zero)[2] = 0
            /\ FloorScale(<<d[2], d[3], d[4]>>, IntNum(Len(draws) - n + 2), Zero)[3]
                  \in 0..(Len(draws) - n + 1)

\* C24: shuffle(array) on an array of length L returns the same array object;
\* it leaves the generator where max(L - 1, 0) draws leave it, and the array
\* as the swaps of array[i] with array[j], i from L - 1 down to 1 and j in
\* [0, i] taken from the i-th of these draws, leave it: a permutation of
\* the input, and the input itself with no draw made when L is 0 or 1.
C24_Shuffle ==
    Util("shuffle") =>
        \A L \in {Len(last.op[2])} :
        \A d \in {Run(before, Target, Randoms(IF L > 1 THEN L - 1 ELSE 0), <<>>)} :
            /\ ~thrown
            /\ LastRet = last.op[3]
            /\ Snapshot(heap, Target) = Snapshot(d.h, Target)
            /\ DrawnInRange(d.outs)
            /\ heap[LastRet].arr = FisherYates(last.op[2], d.outs, L - 1)
            /\ Len(heap[LastRet].arr) = L
            /\ \A k \in 1..L :
                  Cardinality(Holding(heap[LastRet].arr, last.op[2][k]))
                      = Cardinality(Holding(last.op[2], last.op[2][k]))
            /\ L <= 1 => /\ heap[LastRet].arr = last.op[2]
                         /\ Snapshot(heap, Target) = Snapshot(before, Target)

\* C24: shuffle([1, 2, 3, 4]) has left the array in another order, after
\* shuffle([1]) on the same facade
C24_Witness ==
    /\ Util("shuffle") /\ Len(last.op[2]) = 4
    /\ heap[LastRet].arr # last.op[2]
    /\ Len(log[last.i]) > 1
    /\ log[last.i][Len(log[last.i]) - 1][1] = "shuffle"
    /\ Len(log[last.i][Len(log[last.i]) - 1][2]) = 1

\* C28: a setState(payload) that throws leaves the facade with the generator
\* it had, in the state it was in, with the seed it retained and the
\* NormalCache it held.
C28_Atomic ==
    (thrown /\ last.i > 0 /\ last.op[1] = "setState") =>
        /\ heap[Target].generator = before[Target].generator
        /\ Snapshot(heap, Target) = Snapshot(before, Target)

\* C30: weightedPick(items, weights), the items not empty, the weights none
\* negative and one at least positive, makes one draw and returns an item
\* whose weight is positive, whatever the draw, 0 included.
C30_NoZeroWeight ==
    (/\ Util("weightedPick")
     /\ Len(last.op[2]) > 0 /\ Len(last.op[2]) = Len(last.op[3])
     /\ \A k \in 1..Len(last.op[3]) : last.op[3][k][1] = 0
     /\ \E k \in 1..Len(last.op[3]) : last.op[3][k] # Zero)
    => /\ ~thrown
       /\ Snapshot(heap, Target) = Snapshot(PRNG_random(before, Target).h, Target)
       /\ \E k \in 1..Len(last.op[2]) : last.op[2][k] = LastRet /\ last.op[3][k] # Zero

\* the noise objects the caller holds
Fields == 1..Len(insts)
\* the values 0..255 as table entries
Bytes == {Small(v) : v \in 0..255}

\* C26: the permutation table of a noise object has 512 entries, its entries
\* 0..255 are a permutation of 0..255, entry i + 256 is entry i; permMod12 of
\* a SimplexNoise holds perm[i] mod 12 at every i in 0..511; and two objects
\* of the same class built from the same seed have the same tables.
C26_Tables ==
    /\ \A i \in Fields :
          \A perm \in {Tables(heap, insts[i])[1]} :
              /\ Len(perm) = 512
              /\ {perm[k] : k \in 1..256} = Bytes
              /\ \A k \in 1..256 : perm[k + 256] = perm[k]
              /\ heap[insts[i]].class = "SimplexNoise" =>
                    \A mod \in {Tables(heap, insts[i])[2]} :
                        /\ Len(mod) = 512
                        /\ \A k \in 1..512 : mod[k] = Small(perm[k][3] % 12)
    /\ \A i, j \in Fields :
          origin[i] = origin[j] => Tables(heap, insts[i]) = Tables(heap, insts[j])

\* C26: the caller holds two ValueNoise objects built from one seed, their
\* table shuffled, and has evaluated the first of them
C26_Witness ==
    /\ Len(insts) = 2
    /\ origin[1] = origin[2]
    /\ origin[1].kind = "ValueNoise"
    /\ Tables(heap, insts[1])[1] # [k \in 1..512 |-> Small((k - 1) % 256)]
    /\ Len(log[1]) = 1

\* the last call evaluated a noise object
Evaluated == last.i > 0 /\ last.op[1] \in {"noise1D", "noise2D", "noise3D", "fbm"}

\* C27: evaluating a noise object changes nothing: after any evaluations the
\* getState() of its facade and its tables are what they were right after
\* construction, no cell of the heap has changed, and a call made before
\* returns the same value when it is made again.
C27_NoSideEffects ==
    /\ \A i \in Fields :
          /\ Snapshot(heap, heap[insts[i]].rng) = born[i].rng
          /\ Tables(heap, insts[i]) = born[i].tables
          /\ \A j, k \in 1..Len(log[i]) : log[i][j] = log[i][k] => out[i][j] = out[i][k]
    /\ Evaluated => ~thrown /\ heap = before

\* C27: a SimplexNoise has been evaluated by noise3D at the same point twice
\* in a row
C27_Witness ==
    /\ Evaluated /\ last.op[1] = "noise3D"
    /\ heap[Target].class = "SimplexNoise"
    /\ Len(log[last.i]) = 2
    /\ log[last.i][1] = log[last.i][2]

\* the table reads of the evaluations made so far, each <<table, index, entry>>
ReadsMade ==
    UNION { UNION { { out[i][k].reads[m] : m \in 1..Len(out[i][k].reads) } :
                    k \in 1..Len(out[i]) } :
            i \in Fields }

\* C29: every index an evaluation reads a permutation table at, in _hash of
\* ValueNoise and in noise2D and noise3D of SimplexNoise, is an integer from
\* 0 to 511, negative coordinates included; no entry read is undefined, and
\* every gradient index read from permMod12 is from 0 to 11.
C29_InBounds ==
    \A r \in ReadsMade :
        /\ IsNum(r[2]) /\ r[2][1] = 0 /\ r[2][2] = 0 /\ r[2][3] < 512
        /\ IsNum(r[3]) /\ r[3][1] = 0 /\ r[3][2] = 0 /\ r[3][3] < 256
        /\ r[1] = "permMod12" => r[3][3] < 12

\* C29: noise2D of a SimplexNoise has been evaluated at a point with negative
\* coordinates, and has read permMod12 beyond its first 256 entries
C29_Witness ==
    /\ Evaluated /\ last.op[1] = "noise2D"
    /\ heap[Target].class = "SimplexNoise"
    /\ last.op[2][1][2] < 0 /\ last.op[2][2][2] < 0
    /\ \E m \in 1..Len(LastRet.reads) :
          LastRet.reads[m][1] = "permMod12" /\ LastRet.reads[m][2][3] >= 256

\* two fractions are the same number
RatEq(a, b) == a[1] * b[2] = b[1] * a[2]
\* persistence ^ k
RatPower(p, k) == <<Power(p[1], k), Power(p[2], k)>>
\* 1 + persistence + ... + persistence ^ (k - 1)
RECURSIVE RatSum(_, _)
RatSum(p, k) == IF k = 0 THEN <<0, 1>> ELSE RatAdd(RatSum(p, k - 1), RatPower(p, k - 1))
\* the base noise fbm(a) is to evaluate at the frequency f
BaseCall(a, f) ==
    IF a[3] # Null THEN <<"noise3D", Times(a[1], f), Times(a[2], f), Times(a[3], f)>>
    ELSE IF a[2] # Null THEN <<"noise2D", Times(a[1], f), Times(a[2], f)>>
    ELSE <<"noise1D", Times(a[1], f)>>
\* the last call was fbm, of one octave at least
WasFbm == last.i > 0 /\ last.op[1] = "fbm" /\ last.op[2][4] >= 1

\* C25: fbm(x, y, z, octaves, lacunarity, persistence) of a ValueNoise or a
\* SimplexNoise evaluates the base noise once per octave i = 0, 1, ...: the
\* 3D noise when z is not null, else the 2D noise when y is not null, else
\* the 1D noise of x, at the coordinates times lacunarity^i, with the weight
\* persistence^i; it returns the weighted sum over the sum of the weights.
C25_Fbm ==
    WasFbm =>
        \A a \in {last.op[2]} :
            /\ ~thrown
            /\ Len(LastRet.terms) = a[4]
            /\ \A k \in 1..Len(LastRet.terms) :
                  /\ RatEq(LastRet.terms[k][1], RatPower(a[6], k - 1))
                  /\ LastRet.terms[k][2] = BaseCall(a, Power(a[5], k - 1))
                  /\ LastRet.value[2][k][1] = LastRet.terms[k][1]
            /\ Len(LastRet.value[2]) = a[4]
            /\ RatEq(LastRet.value[3], RatSum(a[6], a[4]))

====
